---- MODULE Spec2Model ----
(***************************************************************************)
(* Autonomous command execution engine of the robot (MyRobot in            *)
(* src/src/robot.py) together with the drive train it dispatches to        *)
(* (src/drivetrain.py).  One action per handler: the mode-entry functions  *)
(* and one iteration of each mode loop.  Time is counted in loop           *)
(* iterations: every iteration ends with wpilib.Wait(0.01), which advances *)
(* every running stopwatch by one unit.                                    *)
(***************************************************************************)
EXTENDS Integers, Sequences, FiniteSets, TLC

(* ------------------------------ bounds -------------------------------- *)
\* Calls of get_next_command followed beyond the end of a script.
MaxExtraCalls == 2
\* A stopwatch reading saturates here; larger than every script duration.
MaxElapsed == 3
\* Largest heading the gyro reports (headings are 0..MaxAngle).
MaxAngle == 1
\* Largest accumulated distance the accelerometer integration reports.
MaxDistance == 2
\* Number of mode entries (Disabled / Autonomous / Teleop) followed after
\* start-up.
MaxEntries == 2

(* ------------------------- program constants -------------------------- *)
\* common.ProgramState
DISABLED == 1
AUTONOMOUS == 2
TELEOP == 3
\* common.Direction
LEFT == 1
RIGHT == 2
FORWARD == 3
BACKWARD == 4
UP == 5
DOWN == 6
\* feeder.Direction
STOP == 0
Direction_IN == 1
Direction_OUT == 2
\* userinterface.Joystick button numbers
X == 1
Y == 4
LEFTBUMPER == 5
RIGHTBUMPER == 6
RIGHTTRIGGER == 8
BACK == 9
START == 10
\* userinterface.UserControllers
KDRIVER == 0
KSCORING == 1
\* Parameters of UserInterface (read from the parameter file by
\* load_parameters): the number of buttons of each controller.
controller_1_buttons == 10
controller_2_buttons == 10
\* Parameters of MyRobot (read from the parameter file by load_parameters);
\* times, positions and powers are scaled to integers.
max_hold_to_shoot_time == 2
catapult_feed_position == 1
catapult_low_pass_position == 2
truss_pass_power == 100

\* Drive train parameters (read from drivetrain.par by load_parameters);
\* speeds and ratios are scaled to integers.
forward_direction == 1
backward_direction == -1
left_direction == -1
right_direction == 1
normal_linear_speed_ratio == 1
normal_turning_speed_ratio == 1
alternate_linear_speed_ratio == 2
alternate_turning_speed_ratio == 2
auto_far_linear_speed_ratio == 3
auto_medium_linear_speed_ratio == 2
auto_near_linear_speed_ratio == 1
auto_far_turning_speed_ratio == 3
auto_medium_turning_speed_ratio == 2
auto_near_turning_speed_ratio == 1
time_threshold == 1
auto_medium_time_threshold == 1
auto_far_time_threshold == 2
distance_threshold == 1
auto_medium_distance_threshold == 1
auto_far_distance_threshold == 2
heading_threshold == 1
auto_medium_heading_threshold == 1
auto_far_heading_threshold == 2
maximum_linear_speed_change == 1
maximum_turn_speed_change == 1

(* ------------------------------ helpers ------------------------------- *)
fabs(x) == IF x < 0 THEN -x ELSE x

Min(a, b) == IF a < b THEN a ELSE b

\* One entry of the per-handler call log.
Call(obj, op, args, ret) == [obj |-> obj, op |-> op, args |-> args, ret |-> ret]

(* ----------------------------- Stopwatch ------------------------------ *)
\* stopwatch.Stopwatch as its callers use it: start() begins a measurement
\* from zero, stop() ends it, elapsed_time_in_secs() is the time since
\* start() while running and the measured duration once stopped.
NewStopwatch == [running |-> FALSE, elapsed |-> 0]

StopwatchStart(t) == [running |-> TRUE, elapsed |-> 0]

StopwatchStop(t) == [running |-> FALSE, elapsed |-> t.elapsed]

elapsed_time_in_secs(t) == t.elapsed

\* wpilib.Wait(0.01) at the end of a loop iteration, seen by one stopwatch.
StopwatchWait(t) ==
    IF t.running THEN [t EXCEPT !.elapsed = Min(t.elapsed + 1, MaxElapsed)]
    ELSE t

(* --------------------- AutoScript commands and files ------------------ *)
\* A command of a script as the run loop reads it: verb and parameters.
AutoScriptCommand(c, p) == [command |-> c, parameters |-> p]

\* The value of an attribute that was never assigned (the class default None).
Unset == "None"

\* AutoScriptCommand.__init__(c, p) of src/autoscript.py: the body holds the
\* docstring only, so command and parameters keep the class defaults.
AutoScriptCommand_init(c, p) == [command |-> Unset, parameters |-> Unset]

\* Python's None for a command reference.
None == [command |-> "None", parameters |-> <<>>]

\* A line of a script file the tokenizer cannot split into fields.
Garbled == "#garbled"

\* The script directory /py/as/: file name -> lines of the file.  A line is
\* its comma-separated fields, verb first; <<>> is an empty line.
ScriptFiles ==
    [ f \in {"drive.as", "timed.as", "errors.as", "mech.as", "shoot.as",
              "turn.as", "twice.as"} |->
        CASE f = "drive.as" ->
               << <<"drivedistance", 2, 1>>,
                  <<"wait", 1>>,
                  <<"end">> >>
          [] f = "timed.as" ->
               << <<"wait", 1>>,
                  <<"wait", 2>>,
                  <<>>,
                  <<"drivetime", 2, FORWARD, 1>>,
                  <<"end">> >>
          [] f = "errors.as" ->
               << <<"bogus", 1>>,
                  <<"drivetime", 1>>,
                  <<"wait">>,
                  <<>>,
                  <<"drivetime", 1, BACKWARD, 1>>,
                  <<Garbled>>,
                  <<"setfeederposition", DOWN>> >>
          [] f = "mech.as" ->
               << <<"setfeederposition", DOWN>>,
                  <<"feedtime", 1, Direction_IN, 1>>,
                  <<"auto_fire", 1>>,
                  <<"setshooter", 1, 1>> >>
          [] f = "shoot.as" ->
               << <<"shoottime", 1, UP, 1>>,
                  <<"end">> >>
          [] f = "turn.as" ->
               << <<"adjustheading", 1, 1>>,
                  <<"setheading", 1, 1>>,
                  <<"turntime", 1, LEFT, 1>>,
                  <<"end">>,
                  <<"drivetime", 1, FORWARD, 1>> >>
          [] f = "twice.as" ->
               << <<"drivedistance", 2, 1>>,
                  <<"drivedistance", 2, 1>>,
                  <<"end">> >> ]

(* ----------------------------- DriveTrain ------------------------------ *)
\* A DriveTrain object after _initialize/load_parameters.  robot_drive and
\* movement_timer say whether the object exists (is not None).
NewDriveTrain(robot_drive, gyro, accelerometer, movement_timer) ==
    [ robot_drive |-> robot_drive,
      gyro_enabled |-> gyro,
      accelerometer_enabled |-> accelerometer,
      has_movement_timer |-> movement_timer,
      movement_timer |-> NewStopwatch,
      robot_state |-> DISABLED,
      gyro_angle |-> 0,
      distance_traveled |-> 0,
      initial_heading |-> 0,
      previous_linear_speed |-> 0,
      previous_turn_speed |-> 0,
      adjustment_in_progress |-> FALSE ]

\* RobotDrive.ArcadeDrive(linear, turn, False): the command sent to the motors.
ArcadeDrive(linear, turn) == Call("robot_drive", "ArcadeDrive", <<linear, turn>>, "None")

\* Result of a DriveTrain method: the object afterwards, the return value,
\* the calls made on collaborators, and whether an AttributeError was raised.
DtResult(dt, ret, calls) == [dt |-> dt, ret |-> ret, calls |-> calls, raised |-> FALSE]

\* DriveTrain.set_robot_state
DriveTrain_set_robot_state(dt, state) ==
    LET d1 == [dt EXCEPT !.robot_state = state]
        d2 == IF d1.has_movement_timer
              THEN [d1 EXCEPT !.movement_timer = StopwatchStop(@)]
              ELSE d1
        d3 == IF d2.accelerometer_enabled
              THEN [d2 EXCEPT !.distance_traveled = 0]
              ELSE d2
    IN  IF d3.robot_drive
        THEN DtResult(d3, "None", << Call("robot_drive", "SetSafetyEnabled",
                                          <<IF state = AUTONOMOUS THEN 0 ELSE 1>>, "None") >>)
        ELSE \* self._robot_drive is None: attribute access raises
             [dt |-> d3, ret |-> "None", calls |-> <<>>, raised |-> TRUE]

\* DriveTrain.read_sensors: angle is the gyro reading, moved the distance
\* integrated from the accelerometer over the last loop.
DriveTrain_read_sensors(dt, angle, moved) ==
    LET d1 == IF dt.gyro_enabled THEN [dt EXCEPT !.gyro_angle = angle] ELSE dt
    IN  IF d1.accelerometer_enabled
        THEN [d1 EXCEPT !.distance_traveled = Min(@ + moved, MaxDistance)]
        ELSE d1

\* DriveTrain.reset_and_start_timer
DriveTrain_reset_and_start_timer(dt) ==
    IF dt.has_movement_timer
    THEN [dt EXCEPT !.movement_timer = StopwatchStart(StopwatchStop(@))]
    ELSE dt

\* A selection that falls to the near ratio as soon as the far threshold is
\* not exceeded.
SpeedTier_NoMedium(remaining, far_threshold, medium_threshold, far, medium, near) ==
    IF remaining > far_threshold THEN far ELSE near

\* The far / medium / near speed ratio of the autonomous movements.
SpeedTier(remaining, far_threshold, medium_threshold, far, medium, near) ==
    IF remaining > far_threshold THEN far
    ELSE IF remaining > medium_threshold THEN medium
    ELSE near

\* A heading adjustment that takes the gyro heading as initial heading on
\* every call.
adjust_heading_Recaptures(dt, adjustment, speed) ==
    IF ~dt.robot_drive \/ ~dt.gyro_enabled
    THEN DtResult([dt EXCEPT !.adjustment_in_progress = FALSE], TRUE, <<>>)
    ELSE
      LET d1 == [dt EXCEPT !.initial_heading = dt.gyro_angle,
                           !.adjustment_in_progress = TRUE]
          angle_remaining == (d1.initial_heading + adjustment) - d1.gyro_angle
          turn_direction == IF angle_remaining < 0 THEN left_direction
                            ELSE right_direction
      IN  IF fabs(angle_remaining) < heading_threshold
          THEN DtResult([d1 EXCEPT !.adjustment_in_progress = FALSE], TRUE,
                        << ArcadeDrive(0, 0) >>)
          ELSE DtResult(d1, FALSE,
                        << ArcadeDrive(0, turn_direction * speed *
                             SpeedTier(fabs(angle_remaining),
                                       auto_far_heading_threshold,
                                       auto_medium_heading_threshold,
                                       auto_far_turning_speed_ratio,
                                       auto_medium_turning_speed_ratio,
                                       auto_near_turning_speed_ratio)) >>)

\* DriveTrain.adjust_heading
adjust_heading(dt, adjustment, speed) ==
    IF ~dt.robot_drive \/ ~dt.gyro_enabled
    THEN DtResult([dt EXCEPT !.adjustment_in_progress = FALSE], TRUE, <<>>)
    ELSE
      LET d1 == IF ~dt.adjustment_in_progress
                THEN [dt EXCEPT !.initial_heading = dt.gyro_angle,
                                !.adjustment_in_progress = TRUE]
                ELSE dt
          angle_remaining == (d1.initial_heading + adjustment) - d1.gyro_angle
          turn_direction == IF angle_remaining < 0 THEN left_direction
                            ELSE right_direction
      IN  IF fabs(angle_remaining) < heading_threshold
          THEN DtResult([d1 EXCEPT !.adjustment_in_progress = FALSE], TRUE,
                        << ArcadeDrive(0, 0) >>)
          ELSE DtResult(d1, FALSE,
                        << ArcadeDrive(0, turn_direction * speed *
                             SpeedTier(fabs(angle_remaining),
                                       auto_far_heading_threshold,
                                       auto_medium_heading_threshold,
                                       auto_far_turning_speed_ratio,
                                       auto_medium_turning_speed_ratio,
                                       auto_near_turning_speed_ratio)) >>)

\* DriveTrain.drive_distance
drive_distance(dt, distance, speed) ==
    IF ~dt.robot_drive \/ ~dt.accelerometer_enabled
    THEN DtResult(dt, TRUE, <<>>)
    ELSE
      LET directional_multiplier == IF distance > 0 THEN forward_direction
                                    ELSE backward_direction
          distance_left == fabs(distance) - fabs(dt.distance_traveled)
      IN  IF distance_left < distance_threshold
          THEN DtResult(dt, TRUE, << ArcadeDrive(0, 0) >>)
          ELSE DtResult(dt, FALSE,
                        << ArcadeDrive(directional_multiplier * speed *
                             SpeedTier(distance_left,
                                       auto_far_distance_threshold,
                                       auto_medium_distance_threshold,
                                       auto_far_linear_speed_ratio,
                                       auto_medium_linear_speed_ratio,
                                       auto_near_linear_speed_ratio), 0) >>)

\* DriveTrain.drive_time
\* drive_time without the movement timer check.
drive_time_NoTimerCheck(dt, time, direction, speed) ==
    IF ~dt.robot_drive
    THEN DtResult(dt, TRUE, <<>>)
    ELSE
      LET elapsed_time == elapsed_time_in_secs(dt.movement_timer)
          time_left == time - elapsed_time
          directional_speed == IF direction = FORWARD THEN forward_direction
                               ELSE backward_direction
      IN  IF time_left < time_threshold \/ time_left < 0
          THEN DtResult([dt EXCEPT !.movement_timer = StopwatchStop(@)], TRUE,
                        << ArcadeDrive(0, 0) >>)
          ELSE DtResult(dt, FALSE,
                        << ArcadeDrive(directional_speed * speed, 0) >>)

drive_time(dt, time, direction, speed) ==
    IF ~dt.robot_drive \/ ~dt.has_movement_timer
    THEN DtResult(dt, TRUE, <<>>)
    ELSE
      LET elapsed_time == elapsed_time_in_secs(dt.movement_timer)
          time_left == time - elapsed_time
          directional_speed == IF direction = FORWARD THEN forward_direction
                               ELSE backward_direction
      IN  IF time_left < time_threshold \/ time_left < 0
          THEN DtResult([dt EXCEPT !.movement_timer = StopwatchStop(@)], TRUE,
                        << ArcadeDrive(0, 0) >>)
          ELSE DtResult(dt, FALSE,
                        << ArcadeDrive(directional_speed * speed *
                             SpeedTier(time_left,
                                       auto_far_time_threshold,
                                       auto_medium_time_threshold,
                                       auto_far_linear_speed_ratio,
                                       auto_medium_linear_speed_ratio,
                                       auto_near_linear_speed_ratio), 0) >>)

\* DriveTrain.turn_heading, which robot.py calls as set_heading
set_heading(dt, heading, speed) ==
    IF ~dt.robot_drive \/ ~dt.gyro_enabled
    THEN DtResult(dt, TRUE, <<>>)
    ELSE
      LET angle_remaining == heading - dt.gyro_angle
          turn_direction == IF angle_remaining < 0 THEN left_direction
                            ELSE right_direction
      IN  IF fabs(angle_remaining) < heading_threshold
          THEN DtResult(dt, TRUE, << ArcadeDrive(0, 0) >>)
          ELSE DtResult(dt, FALSE,
                        << ArcadeDrive(0, turn_direction * speed *
                             SpeedTier(fabs(angle_remaining),
                                       auto_far_heading_threshold,
                                       auto_medium_heading_threshold,
                                       auto_far_turning_speed_ratio,
                                       auto_medium_turning_speed_ratio,
                                       auto_near_turning_speed_ratio)) >>)

\* A turn_time that reports completion only once the whole time has passed.
turn_time_IgnoresThreshold(dt, time, direction, speed) ==
    IF ~dt.robot_drive \/ ~dt.has_movement_timer
    THEN DtResult(dt, TRUE, <<>>)
    ELSE
      LET time_left == time - elapsed_time_in_secs(dt.movement_timer)
          directional_speed == IF direction = LEFT THEN left_direction
                               ELSE right_direction
      IN  IF time_left < 0
          THEN DtResult([dt EXCEPT !.movement_timer = StopwatchStop(@)], TRUE,
                        << ArcadeDrive(0, 0) >>)
          ELSE DtResult(dt, FALSE,
                        << ArcadeDrive(0, directional_speed * speed) >>)

\* DriveTrain.turn_time
turn_time(dt, time, direction, speed) ==
    IF ~dt.robot_drive \/ ~dt.has_movement_timer
    THEN DtResult(dt, TRUE, <<>>)
    ELSE
      LET elapsed_time == elapsed_time_in_secs(dt.movement_timer)
          time_left == time - elapsed_time
          directional_speed == IF direction = LEFT THEN left_direction
                               ELSE right_direction
      IN  IF time_left < time_threshold \/ time_left < 0
          THEN DtResult([dt EXCEPT !.movement_timer = StopwatchStop(@)], TRUE,
                        << ArcadeDrive(0, 0) >>)
          ELSE DtResult(dt, FALSE,
                        << ArcadeDrive(0, directional_speed * speed *
                             SpeedTier(time_left,
                                       auto_far_time_threshold,
                                       auto_medium_time_threshold,
                                       auto_far_turning_speed_ratio,
                                       auto_medium_turning_speed_ratio,
                                       auto_near_turning_speed_ratio)) >>)

\* No rate limit: the speed asked for is sent.
LimitChange_Unlimited(target, previous, max_change) == target

\* The rate limit of DriveTrain.drive: at most max_change away from previous.
LimitChange(target, previous, max_change) ==
    IF fabs(target - previous) > max_change
    THEN IF (target - previous) < 0 THEN previous - max_change
         ELSE previous + max_change
    ELSE target

\* DriveTrain.drive
drive(dt, directional_speed, directional_turn, alternate) ==
    IF ~dt.robot_drive
    THEN DtResult(dt, "None", <<>>)
    ELSE
      LET linear0 == IF alternate THEN alternate_linear_speed_ratio * directional_speed
                     ELSE normal_linear_speed_ratio * directional_speed
          turn0 == IF alternate THEN alternate_turning_speed_ratio * directional_turn
                   ELSE normal_turning_speed_ratio * directional_turn
          linear == LimitChange(linear0, dt.previous_linear_speed,
                                maximum_linear_speed_change)
          turn == LimitChange(turn0, dt.previous_turn_speed,
                              maximum_turn_speed_change)
      IN  DtResult([dt EXCEPT !.previous_linear_speed = linear,
                              !.previous_turn_speed = turn],
                   "None", << ArcadeDrive(linear, turn) >>)

(* ------------------------- Feeder and Shooter ------------------------- *)
\* Thresholds of the time-bounded feeder and shooter operations.
feeder_time_threshold == 1
shooter_time_threshold == 1

NewFeeder == [timer |-> NewStopwatch]

NewShooter == [timer |-> NewStopwatch, ignore_encoder_limits |-> FALSE]

\* Result of a Feeder or Shooter method.
OpResult(obj, ret, calls) == [obj |-> obj, ret |-> ret, calls |-> calls]

\* Feeder.set_position: the solenoid is set for UP and DOWN only.
Feeder_set_position(direction) ==
    IF direction = UP THEN << Call("solenoid", "Set", <<0>>, "None") >>
    ELSE IF direction = DOWN THEN << Call("solenoid", "Set", <<1>>, "None") >>
    ELSE <<>>

\* Feeder.feed: the speed given to the arm motors (right arm, left arm).
Feeder_feed(direction, speed) ==
    IF direction = Direction_IN THEN << Call("arms", "Set", <<speed, -speed>>, "None") >>
    ELSE IF direction = Direction_OUT THEN << Call("arms", "Set", <<-speed, speed>>, "None") >>
    ELSE IF direction = STOP THEN << Call("arms", "Set", <<0, 0>>, "None") >>
    ELSE <<>>

\* Feeder.reset_and_start_timer
Feeder_reset_and_start_timer(f) == [f EXCEPT !.timer = StopwatchStart(StopwatchStop(@))]

\* Feeder.feed_time: the time-bounded operation contract.
feed_time(f, time, direction, speed) ==
    LET time_left == time - elapsed_time_in_secs(f.timer)
    IN  IF time_left < feeder_time_threshold \/ time_left < 0
        THEN OpResult([f EXCEPT !.timer = StopwatchStop(@)], TRUE, Feeder_feed(STOP, 0))
        ELSE OpResult(f, FALSE, Feeder_feed(direction, speed))

\* Shooter.reset_and_start_timer
Shooter_reset_and_start_timer(s) == [s EXCEPT !.timer = StopwatchStart(StopwatchStop(@))]

\* Shooter.set_robot_state: the timer is stopped on any state change.
Shooter_set_robot_state(s, state) == [s EXCEPT !.timer = StopwatchStop(@)]

\* Shooter.ignore_encoder_limits
Shooter_ignore_encoder_limits(s, state) == [s EXCEPT !.ignore_encoder_limits = state]

\* Shooter.move: manual movement of the catapult.
Shooter_move(speed) == << Call("shooter_controller", "Set", <<speed>>, "None") >>

\* Shooter.shoot_time: the time-bounded operation contract.
shoot_time(s, time, direction, speed) ==
    LET time_left == time - elapsed_time_in_secs(s.timer)
    IN  IF time_left < shooter_time_threshold \/ time_left < 0
        THEN OpResult([s EXCEPT !.timer = StopwatchStop(@)], TRUE, Shooter_move(0))
        ELSE OpResult(s, FALSE,
                      Shooter_move(IF direction = UP THEN speed ELSE -speed))

\* Shooter.auto_fire and Shooter.set_position report completion from the
\* encoder; reached is whether the sensor says the target is reached.
auto_fire(s, power, reached) ==
    OpResult(s, reached, Shooter_move(IF reached THEN 0 ELSE 1))

Shooter_set_position(s, position, speed, reached) ==
    OpResult(s, reached, Shooter_move(IF reached THEN 0 ELSE speed))

(* ----------------------------- AutoScript ----------------------------- *)
\* An AutoScript object: _commands (loaded is FALSE when it is None) and
\* _command_iterator.
NewAutoScript == [loaded |-> FALSE, commands |-> <<>>, command_iterator |-> 0]

\* One line of a script file as a command: the first field is the verb, the
\* others the parameters; a line that cannot be tokenized becomes invalid.
parse_line(line) ==
    IF line[1] = Garbled
    THEN AutoScriptCommand("invalid", <<>>)
    ELSE AutoScriptCommand(line[1], Tail(line))

\* A reader that stops at the first line it cannot tokenize.
read_script_StopsAtGarbled(lines) ==
    LET text == SelectSeq(lines, LAMBDA l : l # <<>>)
        bad == { i \in 1..Len(text) : text[i][1] = Garbled }
        last == IF bad = {} THEN Len(text)
                ELSE (CHOOSE i \in bad : \A j \in bad : i <= j) - 1
    IN  [i \in 1..last |-> parse_line(text[i])]

\* AutoScript.read_script: every non-empty line, in file order.
read_script(lines) ==
    LET text == SelectSeq(lines, LAMBDA l : l # <<>>)
    IN  [i \in 1..Len(text) |-> parse_line(text[i])]

\* A parse that reads the file whether or not it can be opened.
parse_IgnoresMissing(filename, exists) ==
    IF filename \in DOMAIN ScriptFiles
    THEN [loaded |-> TRUE, commands |-> read_script(ScriptFiles[filename]),
          command_iterator |-> 0]
    ELSE NewAutoScript

\* AutoScript.parse: a missing file leaves the script absent.
parse(filename, exists) ==
    IF exists /\ filename \in DOMAIN ScriptFiles
    THEN [loaded |-> TRUE, commands |-> read_script(ScriptFiles[filename]),
          command_iterator |-> 0]
    ELSE NewAutoScript

\* An iterator that starts again at the first command after the last one.
get_next_command_Wraps(a) ==
    IF a.loaded /\ Len(a.commands) > 0
    THEN [command |-> a.commands[(a.command_iterator % Len(a.commands)) + 1],
          autoscript |-> [a EXCEPT !.command_iterator =
                                       (@ % Len(a.commands)) + 1]]
    ELSE [command |-> None, autoscript |-> a]

\* AutoScript.get_next_command: the command returned, and the object afterwards.
get_next_command(a) ==
    IF a.loaded /\ a.command_iterator < Len(a.commands)
    THEN [command |-> a.commands[a.command_iterator + 1],
          autoscript |-> [a EXCEPT !.command_iterator = @ + 1]]
    ELSE [command |-> None, autoscript |-> a]

\* AutoScript.get_available_scripts("/py/as/") when the directory holds the
\* script files, in lexicographic order.
Catalog == << "drive.as", "errors.as", "mech.as", "shoot.as", "timed.as",
             "turn.as" >>

\* What the directory /py/as/ can hold.
Listings == { Catalog, <<>> }

(* --------------------------- UserInterface ---------------------------- *)
\* The operator's controls during one iteration: the buttons held down on
\* each controller and the stick positions.
Controls(driver, scoring) ==
    [ buttons |-> [c \in {KDRIVER, KSCORING} |->
                      IF c = KDRIVER THEN driver ELSE scoring],
      driver_left_y |-> 0, driver_right_x |-> 0,
      scoring_left_y |-> 0, scoring_right_y |-> 0 ]

\* UserInterface.get_button_state
get_button_state(ui, controller, button) ==
    IF button \in ui.buttons[controller] THEN 1 ELSE 0

\* UserInterface.button_state_changed: the state differs from the stored one.
button_state_changed(ui, stored, controller, button) ==
    get_button_state(ui, controller, button)
        # (IF button \in stored[controller] THEN 1 ELSE 0)

\* A store that forgets the buttons instead of recording them.
store_button_states_Forgets(ui, stored, controller) ==
    [stored EXCEPT ![controller] = {}]

\* UserInterface.store_button_states: the state of each of the buttons
\* 1 .. button_count of the controller is recorded.
store_button_states(ui, stored, controller) ==
    LET button_count == IF controller = KDRIVER THEN controller_1_buttons
                        ELSE IF controller = KSCORING THEN controller_2_buttons
                        ELSE 0
    IN  [stored EXCEPT ![controller] =
            { b \in 1..button_count : get_button_state(ui, controller, b) = 1 }]

\* UserInterface.output_user_message(message, True), as the robot calls it.
output_user_message(message) ==
    Call("user_interface", "output_user_message", <<message>>, "None")

\* What the operator does during one Teleop iteration: nothing, one stick
\* moved, or one button held down.
OperatorInputs ==
    LET rest == Controls({}, {})
    IN  { rest,
          [rest EXCEPT !.driver_left_y = 1],
          [rest EXCEPT !.scoring_left_y = 1],
          [rest EXCEPT !.scoring_right_y = 1],
          [rest EXCEPT !.scoring_right_y = -1] }
        \cup { Controls({}, {b}) : b \in {RIGHTTRIGGER, Y, X, LEFTBUMPER,
                                          RIGHTBUMPER, BACK, START} }
        \cup { Controls({b}, {}) : b \in {BACK, LEFTBUMPER} }

\* An operator who only drives and asks for restarts.
BasicInputs ==
    LET rest == Controls({}, {})
    IN  { rest, [rest EXCEPT !.driver_left_y = 1], Controls({}, {START}) }

(* ---------------------------- Target server --------------------------- *)
\* Capacity of the queue between the target server and the robot core
\* (queue.Queue(maxsize), created by the owner of the server).
QueueCapacity == 2

\* Valid messages the connection delivers; each carries a batch of targets,
\* named by its number of arrival.
MaxMessages == 4

\* A queue that never reports itself full.
Queue_full_Never(q) == FALSE

\* queue.Queue.full
Queue_full(q) == Len(q) >= QueueCapacity

\* The server after construction and the first connection: an empty queue,
\* the handler about to read a line, nothing read yet.
NewTargetServer ==
    [ data_queue |-> <<>>, pc |-> "readline", new_targets |-> 0,
      was_full |-> FALSE, received |-> 0, line |-> "none" ]

\* ImageProcessor after __init__ and the locals of process() before its
\* loop: no socket, neither connection made; connects, sent and failures
\* count the connection attempts, the targets sent and the failures of the
\* send loop so far, raised is the exception that ended process().
NewImageProcessor ==
    [ pc |-> "connect", sock |-> "None", robot_connected |-> FALSE,
      camera_connected |-> FALSE, connects |-> 0, sent |-> 0,
      failures |-> 0, raised |-> "None" ]

(* ------------------------------ MyRobot ------------------------------- *)
\* Which member objects of MyRobot and of its DriveTrain exist.
HardwareConfigs ==
    LET full == [ autoscript |-> TRUE, drive_train |-> TRUE, feeder |-> TRUE,
                  shooter |-> TRUE, timer |-> TRUE, user_interface |-> TRUE,
                  robot_drive |-> TRUE, gyro |-> TRUE, accelerometer |-> TRUE,
                  movement_timer |-> TRUE ]
    IN  { full,
          [full EXCEPT !.autoscript = FALSE],
          [full EXCEPT !.drive_train = FALSE],
          [full EXCEPT !.feeder = FALSE],
          [full EXCEPT !.shooter = FALSE],
          [full EXCEPT !.timer = FALSE],
          [full EXCEPT !.user_interface = FALSE],
          [full EXCEPT !.robot_drive = FALSE],
          [full EXCEPT !.gyro = FALSE],
          [full EXCEPT !.accelerometer = FALSE],
          [full EXCEPT !.movement_timer = FALSE] }

VARIABLES
    hw,                            \* which objects exist (fixed at construction)
    directory,                     \* the script files in /py/as/
    operator,                      \* the controls the operator uses in Teleop
    mode,                          \* the mode function that is running
    exception,                     \* the exception that ended the program, or "None"
    autoscript,                    \* self._autoscript
    autoscript_files,              \* self._autoscript_files
    autoscript_file_counter,       \* self._autoscript_file_counter
    autoscript_filename,           \* self._autoscript_filename ("None" when unset)
    current_command,               \* self._current_command
    current_command_complete,      \* self._current_command_complete
    current_command_in_progress,   \* self._current_command_in_progress
    current_feeder_position,       \* self._current_feeder_position
    driver_alternate,              \* self._driver_alternate
    hold_to_shoot_step,            \* self._hold_to_shoot_step
    hold_to_shoot_power,           \* self._hold_to_shoot_power
    prep_for_feed_step,            \* self._prep_for_feed_step
    prep_for_low_pass_step,        \* self._prep_for_low_pass_step
    truss_pass_step,               \* self._truss_pass_step
    timer,                         \* self._timer
    drive_train,                   \* self._drive_train
    feeder,                        \* self._feeder
    shooter,                       \* self._shooter
    previous_button_state,         \* UserInterface: stored buttons of each controller
    entries,                       \* mode entries still to come
    abandoned,                     \* command the last mode change interrupted
    handler,                       \* the handler that ran last
    tick_command,                  \* current command when the last iteration began
    autoscript_finished,           \* local autoscript_finished of the last iteration
    previous_finished,             \* autoscript_finished of the iteration before it
    command_fetched,               \* the last handler called get_next_command
    calls,                         \* calls made on collaborators by the last handler
    target_server,                 \* the target server: its queue and its handler's position
    image_processor                \* the driver station's ImageProcessor.process

vars == << hw, directory, operator, mode, exception, autoscript, autoscript_files,
           autoscript_file_counter, autoscript_filename, current_command,
           current_command_complete, current_command_in_progress,
           current_feeder_position, driver_alternate, hold_to_shoot_step,
           hold_to_shoot_power, prep_for_feed_step, prep_for_low_pass_step,
           truss_pass_step, timer, drive_train, feeder, shooter,
           previous_button_state, entries, abandoned, handler, tick_command,
           autoscript_finished, previous_finished, command_fetched, calls,
           target_server, image_processor >>

\* MyRobot._initialize (RobotInit) on hardware h, with the scripts d in
\* /py/as/, e mode entries to come and an operator who uses the controls o.
InitWith(h, d, e, o) ==
    /\ hw = h
    /\ directory = d
    /\ operator = o
    /\ mode = "init"
    /\ exception = "None"
    /\ autoscript = NewAutoScript
    /\ autoscript_files = <<>>
    /\ autoscript_file_counter = 0
    /\ autoscript_filename = "None"
    /\ current_command = None
    /\ current_command_complete = FALSE
    /\ current_command_in_progress = FALSE
    /\ current_feeder_position = 0
    /\ driver_alternate = FALSE
    /\ hold_to_shoot_step = -1
    /\ hold_to_shoot_power = 0
    /\ prep_for_feed_step = -1
    /\ prep_for_low_pass_step = -1
    /\ truss_pass_step = -1
    /\ timer = NewStopwatch
    /\ drive_train = NewDriveTrain(hw.robot_drive, hw.gyro, hw.accelerometer,
                                   hw.movement_timer)
    /\ feeder = NewFeeder
    /\ shooter = NewShooter
    /\ previous_button_state = [c \in {KDRIVER, KSCORING} |-> {}]
    /\ entries = e
    /\ abandoned = None
    /\ handler = "init"
    /\ tick_command = None
    /\ autoscript_finished = FALSE
    /\ previous_finished = FALSE
    /\ command_fetched = FALSE
    /\ calls = <<>>
    /\ target_server = NewTargetServer
    /\ image_processor = NewImageProcessor

Init ==
    \E h \in HardwareConfigs, d \in Listings :
        InitWith(h, d, MaxEntries, BasicInputs)

\* The objects a handler works on, threaded through its statements.
World == [ timer |-> timer, drive_train |-> drive_train, feeder |-> feeder,
           shooter |-> shooter, in_progress |-> current_command_in_progress,
           feeder_position |-> current_feeder_position,
           driver_alternate |-> driver_alternate,
           hold_to_shoot_step |-> hold_to_shoot_step,
           hold_to_shoot_power |-> hold_to_shoot_power,
           prep_for_feed_step |-> prep_for_feed_step,
           prep_for_low_pass_step |-> prep_for_low_pass_step,
           truss_pass_step |-> truss_pass_step ]

\* The outcome of one statement block: the objects, the completion flag of
\* the current command, and the calls made.
Step(w, complete, cs) == [w |-> w, complete |-> complete, calls |-> cs]

Ret(b) == IF b THEN "True" ELSE "False"

\* MyRobot._check_restart: the exception it raises, for the state of the
\* SCORING START button.
check_restart(restart_button) ==
    IF ~hw.user_interface THEN "AttributeError"
    ELSE IF restart_button = 1 THEN "Restart"
    ELSE "None"

\* wpilib.Wait(0.01): every running stopwatch advances.
Wait(w) ==
    [w EXCEPT !.timer = StopwatchWait(@),
              !.drive_train.movement_timer = StopwatchWait(@),
              !.feeder.timer = StopwatchWait(@),
              !.shooter.timer = StopwatchWait(@)]

\* The three stop commands of the Disabled loop and of a finished script.
\* StopAll that leaves the shooter alone.
StopAll_NoShooter(w) ==
    LET r == drive(w.drive_train, 0, 0, FALSE)
        w1 == IF hw.drive_train THEN [w EXCEPT !.drive_train = r.dt] ELSE w
        c1 == IF hw.drive_train
              THEN << Call("drive_train", "drive", <<0, 0>>, "None") >> \o r.calls
              ELSE <<>>
        c2 == IF hw.feeder
              THEN << Call("feeder", "feed", <<STOP, 0>>, "None") >> \o Feeder_feed(STOP, 0)
              ELSE <<>>
    IN  Step(w1, FALSE, c1 \o c2)

StopAll(w) ==
    LET r == drive(w.drive_train, 0, 0, FALSE)
        w1 == IF hw.drive_train THEN [w EXCEPT !.drive_train = r.dt] ELSE w
        c1 == IF hw.drive_train
              THEN << Call("drive_train", "drive", <<0, 0>>, "None") >> \o r.calls
              ELSE <<>>
        c2 == IF hw.feeder
              THEN << Call("feeder", "feed", <<STOP, 0>>, "None") >> \o Feeder_feed(STOP, 0)
              ELSE <<>>
        c3 == IF hw.shooter
              THEN << Call("shooter", "move", <<0>>, "None") >> \o Shooter_move(0)
              ELSE <<>>
    IN  Step(w1, FALSE, c1 \o c2 \o c3)

\* MyRobot._read_sensors
read_sensors(w, angle, moved) ==
    IF hw.drive_train
    THEN [w EXCEPT !.drive_train = DriveTrain_read_sensors(@, angle, moved)]
    ELSE w

\* MyRobot._set_robot_state: the objects afterwards and whether the drive
\* train raised (the later objects are then not notified).
set_robot_state(w, state) ==
    LET r == DriveTrain_set_robot_state(w.drive_train, state)
        raised == hw.drive_train /\ r.raised
        w1 == IF hw.drive_train THEN [w EXCEPT !.drive_train = r.dt] ELSE w
        w2 == IF hw.shooter /\ ~raised
              THEN [w1 EXCEPT !.shooter = Shooter_set_robot_state(@, state)]
              ELSE w1
    IN  [w |-> w2, raised |-> raised,
         calls |-> IF hw.drive_train
                   THEN << Call("drive_train", "set_robot_state", <<state>>, "None") >>
                        \o r.calls
                   ELSE <<>>]

(* ---------------- MyRobot.Autonomous: command dispatch ---------------- *)
\* "not parameters or len(parameters) != n"
ArityMismatch(cmd, n) == cmd.parameters = <<>> \/ Len(cmd.parameters) # n

\* The first iteration of a time-bounded command: in_progress is set.
MarkInProgress(w) == [w EXCEPT !.in_progress = TRUE]

\* wait, without the reset of the timer on the first iteration.
DoWait_NeverResets(cmd, w) ==
    IF ArityMismatch(cmd, 1) \/ ~hw.timer
    THEN Step(w, TRUE, <<>>)
    ELSE
      LET time_left == cmd.parameters[1] - elapsed_time_in_secs(w.timer)
          c2 == << Call("timer", "elapsed_time_in_secs", cmd.parameters,
                        Ret(time_left < 0)) >>
      IN  IF time_left < 0
          THEN Step([w EXCEPT !.timer = StopwatchStop(@)], TRUE,
                    c2 \o << Call("timer", "stop", <<>>, "None") >>)
          ELSE Step(MarkInProgress(w), FALSE, c2)

\* wait
DoWait(cmd, w) ==
    IF ArityMismatch(cmd, 1) \/ ~hw.timer
    THEN Step(w, TRUE, <<>>)
    ELSE
      LET first == ~w.in_progress
          w1 == IF first
                THEN MarkInProgress([w EXCEPT !.timer = StopwatchStart(StopwatchStop(@))])
                ELSE w
          c1 == IF first
                THEN << Call("timer", "stop", <<>>, "None"),
                        Call("timer", "start", <<>>, "None") >>
                ELSE <<>>
          elapsed_time == elapsed_time_in_secs(w1.timer)
          time_left == cmd.parameters[1] - elapsed_time
          c2 == << Call("timer", "elapsed_time_in_secs", cmd.parameters,
                        Ret(time_left < 0)) >>
      IN  IF time_left < 0
          THEN Step([w1 EXCEPT !.timer = StopwatchStop(@)], TRUE,
                    c1 \o c2 \o << Call("timer", "stop", <<>>, "None") >>)
          ELSE Step(w1, FALSE, c1 \o c2)

\* A drive train command that also issues the stop calls of a Finished
\* iteration.
DoDrive_AndStop(cmd, w, op, r) ==
    IF ArityMismatch(cmd, 2) \/ ~hw.drive_train
    THEN Step(w, TRUE, <<>>)
    ELSE Step([w EXCEPT !.drive_train = r.dt], r.ret,
              << Call("drive_train", op, cmd.parameters, Ret(r.ret)) >> \o r.calls
                 \o StopAll(w).calls)

\* A drive train command that is not time-bounded: adjustheading,
\* drivedistance, setheading.
DoDrive(cmd, w, op, r) ==
    IF ArityMismatch(cmd, 2) \/ ~hw.drive_train
    THEN Step(w, TRUE, <<>>)
    ELSE Step([w EXCEPT !.drive_train = r.dt], r.ret,
              << Call("drive_train", op, cmd.parameters, Ret(r.ret)) >> \o r.calls)

\* drivetime and turntime: the movement timer is reset on the first iteration.
\* DoDriveTimed with the timer reset ahead of the parameter count check.
DoDriveTimed_ResetFirst(cmd, w, op) ==
    IF ~hw.drive_train
    THEN Step(w, TRUE, <<>>)
    ELSE
      LET first == ~w.in_progress
          w1 == IF first
                THEN MarkInProgress([w EXCEPT !.drive_train =
                                        DriveTrain_reset_and_start_timer(@)])
                ELSE w
          c1 == IF first
                THEN << Call("drive_train", "reset_and_start_timer", <<>>, "None") >>
                ELSE <<>>
      IN  IF ArityMismatch(cmd, 3)
          THEN Step(w1, TRUE, c1)
          ELSE
            LET r == IF op = "drive_time"
                     THEN drive_time(w1.drive_train, cmd.parameters[1],
                                     cmd.parameters[2], cmd.parameters[3])
                     ELSE turn_time(w1.drive_train, cmd.parameters[1],
                                    cmd.parameters[2], cmd.parameters[3])
            IN  Step([w1 EXCEPT !.drive_train = r.dt], r.ret,
                     c1 \o << Call("drive_train", op, cmd.parameters, Ret(r.ret)) >>
                        \o r.calls)

DoDriveTimed(cmd, w, op) ==
    IF ArityMismatch(cmd, 3) \/ ~hw.drive_train
    THEN Step(w, TRUE, <<>>)
    ELSE
      LET first == ~w.in_progress
          w1 == IF first
                THEN MarkInProgress([w EXCEPT !.drive_train =
                                        DriveTrain_reset_and_start_timer(@)])
                ELSE w
          c1 == IF first
                THEN << Call("drive_train", "reset_and_start_timer", <<>>, "None") >>
                ELSE <<>>
          r == IF op = "drive_time"
               THEN drive_time(w1.drive_train, cmd.parameters[1],
                               cmd.parameters[2], cmd.parameters[3])
               ELSE turn_time(w1.drive_train, cmd.parameters[1],
                              cmd.parameters[2], cmd.parameters[3])
      IN  Step([w1 EXCEPT !.drive_train = r.dt], r.ret,
               c1 \o << Call("drive_train", op, cmd.parameters, Ret(r.ret)) >>
                  \o r.calls)

\* setfeederposition
DoSetFeederPosition(cmd, w) ==
    IF ArityMismatch(cmd, 1) \/ ~hw.feeder
    THEN Step(w, TRUE, <<>>)
    ELSE Step([w EXCEPT !.feeder_position = cmd.parameters[1]], TRUE,
              << Call("feeder", "set_position", cmd.parameters, "None") >>
                 \o Feeder_set_position(cmd.parameters[1]))

\* feedtime
DoFeedTime(cmd, w) ==
    IF ArityMismatch(cmd, 3) \/ ~hw.feeder
    THEN Step(w, TRUE, <<>>)
    ELSE
      LET first == ~w.in_progress
          w1 == IF first
                THEN MarkInProgress([w EXCEPT !.feeder = Feeder_reset_and_start_timer(@)])
                ELSE w
          c1 == IF first
                THEN << Call("feeder", "reset_and_start_timer", <<>>, "None") >>
                ELSE <<>>
          r == feed_time(w1.feeder, cmd.parameters[1], cmd.parameters[2],
                         cmd.parameters[3])
      IN  Step([w1 EXCEPT !.feeder = r.obj], r.ret,
               c1 \o << Call("feeder", "feed_time", cmd.parameters, Ret(r.ret)) >>
                  \o r.calls)

\* auto_fire and setshooter
DoShooter(cmd, w, op, n, r) ==
    IF ArityMismatch(cmd, n) \/ ~hw.shooter
    THEN Step(w, TRUE, <<>>)
    ELSE Step([w EXCEPT !.shooter = r.obj], r.ret,
              << Call("shooter", op, cmd.parameters, Ret(r.ret)) >> \o r.calls)

\* shoottime
DoShootTime(cmd, w) ==
    IF ArityMismatch(cmd, 3) \/ ~hw.shooter
    THEN Step(w, TRUE, <<>>)
    ELSE
      LET first == ~w.in_progress
          w1 == IF first
                THEN MarkInProgress([w EXCEPT !.shooter = Shooter_reset_and_start_timer(@)])
                ELSE w
          c1 == IF first
                THEN << Call("shooter", "reset_and_start_timer", <<>>, "None") >>
                ELSE <<>>
          r == shoot_time(w1.shooter, cmd.parameters[1], cmd.parameters[2],
                          cmd.parameters[3])
      IN  Step([w1 EXCEPT !.shooter = r.obj], r.ret,
               c1 \o << Call("shooter", "shoot_time", cmd.parameters, Ret(r.ret)) >>
                  \o r.calls)

\* "Catchall - for any unrecognized command"
\* Catchall that leaves the command current.
Catchall_Stays(w) == Step(w, FALSE, <<>>)

Catchall(w) == Step(w, TRUE, <<>>)

\* The if / elif chain over the command verb; reached is the shooter's
\* sensor verdict of this iteration.
Dispatch(cmd, w, reached) ==
    CASE cmd.command = "wait" -> DoWait(cmd, w)
      [] cmd.command = "adjustheading" ->
            DoDrive(cmd, w, "adjust_heading",
                    adjust_heading(w.drive_train, cmd.parameters[1], cmd.parameters[2]))
      [] cmd.command = "drivedistance" ->
            DoDrive(cmd, w, "drive_distance",
                    drive_distance(w.drive_train, cmd.parameters[1], cmd.parameters[2]))
      [] cmd.command = "drivetime" -> DoDriveTimed(cmd, w, "drive_time")
      [] cmd.command = "setheading" ->
            DoDrive(cmd, w, "set_heading",
                    set_heading(w.drive_train, cmd.parameters[1], cmd.parameters[2]))
      [] cmd.command = "turntime" -> DoDriveTimed(cmd, w, "turn_time")
      [] cmd.command = "setfeederposition" -> DoSetFeederPosition(cmd, w)
      [] cmd.command = "feedtime" -> DoFeedTime(cmd, w)
      [] cmd.command = "auto_fire" ->
            DoShooter(cmd, w, "auto_fire", 1,
                      auto_fire(w.shooter, cmd.parameters[1], reached))
      [] cmd.command = "setshooter" ->
            DoShooter(cmd, w, "set_position", 2,
                      Shooter_set_position(w.shooter, cmd.parameters[1],
                                           cmd.parameters[2], reached))
      [] cmd.command = "shoottime" -> DoShootTime(cmd, w)
      [] OTHER -> Catchall(w)

\* "If we see either invalid or end, we're finished": the condition under
\* which an iteration executes the current command.
\* Executes without the end check.
Executes_IgnoresEnd(filename, cmd) ==
    /\ hw.autoscript
    /\ filename # "None"
    /\ cmd # None
    /\ cmd.command # "invalid"

\* A run loop that does not check that a current command exists.
Executes_IgnoresAbsent(filename, cmd) ==
    /\ hw.autoscript
    /\ filename # "None"
    /\ cmd.command # "invalid"
    /\ cmd.command # "end"

Executes(filename, cmd) ==
    /\ hw.autoscript
    /\ filename # "None"
    /\ cmd # None
    /\ cmd.command # "invalid"
    /\ cmd.command # "end"

\* "Get next command if/when current one is finished": the run state after
\* the dispatch of one iteration.
\* Advance that steps over an invalid command.
Advance_SkipsInvalid(complete, cmd, a, in_progress) ==
    IF complete \/ cmd.command = "invalid"
    THEN [command |-> get_next_command(a).command,
          autoscript |-> get_next_command(a).autoscript,
          in_progress |-> in_progress]
    ELSE [command |-> cmd, autoscript |-> a, in_progress |-> in_progress]

\* Advance that fetches the next command whatever the operation returned.
Advance_Always(complete, cmd, a, in_progress) ==
    [command |-> get_next_command(a).command,
     autoscript |-> get_next_command(a).autoscript,
     in_progress |-> in_progress]

Advance(complete, cmd, a, in_progress) ==
    IF complete
    THEN [command |-> get_next_command(a).command,
          autoscript |-> get_next_command(a).autoscript,
          in_progress |-> in_progress]
    ELSE [command |-> cmd, autoscript |-> a, in_progress |-> in_progress]

(* ------------------------------ handlers ------------------------------ *)
\* The objects of w become the objects of the next state.
Commit(w) ==
    /\ timer' = w.timer
    /\ drive_train' = w.drive_train
    /\ feeder' = w.feeder
    /\ shooter' = w.shooter
    /\ current_command_in_progress' = w.in_progress
    /\ current_feeder_position' = w.feeder_position
    /\ driver_alternate' = w.driver_alternate
    /\ hold_to_shoot_step' = w.hold_to_shoot_step
    /\ hold_to_shoot_power' = w.hold_to_shoot_power
    /\ prep_for_feed_step' = w.prep_for_feed_step
    /\ prep_for_low_pass_step' = w.prep_for_low_pass_step
    /\ truss_pass_step' = w.truss_pass_step

\* Sensor readings an iteration can see.
Angles == 0..MaxAngle
Moves == 0..1

\* A selection that stays on the last file instead of wrapping to the first.
NextFileCounter_Sticks(counter, files) ==
    IF counter + 1 > Len(files) - 1 THEN counter ELSE counter + 1

\* The next autoscript file after a press of DRIVER START (wraps to 0).
NextFileCounter(counter, files) ==
    IF counter + 1 > Len(files) - 1 THEN 0 ELSE counter + 1

\* The command a mode change interrupts: the one the Autonomous loop has
\* started and not completed; None when the loop was Finished or the robot
\* was not in Autonomous.
Interrupted ==
    IF /\ mode = "autonomous"
       /\ Executes(autoscript_filename, current_command)
       /\ current_command_in_progress
    THEN current_command
    ELSE None

\* MyRobot._disabled_init, on entry to Disabled().
DisabledInit ==
    /\ exception = "None"
    /\ mode # "disabled"
    /\ entries > 0
    /\ entries' = entries - 1
    /\ abandoned' = Interrupted
    /\ tick_command' = None
    /\ autoscript_finished' = FALSE
    /\ previous_finished' = FALSE
    /\ \E angle \in Angles, moved \in Moves :
        LET listing == directory
            r == set_robot_state(World, DISABLED)
            w1 == IF hw.feeder THEN [r.w EXCEPT !.feeder_position = UP] ELSE r.w
            c1 == IF hw.feeder
                  THEN << Call("feeder", "set_position", <<UP>>, "None") >>
                       \o Feeder_set_position(UP)
                  ELSE <<>>
            w2 == read_sensors(w1, angle, moved)
            selects == hw.autoscript /\ listing # <<>>
            w3 == IF hw.timer
                  THEN [w2 EXCEPT !.timer = StopwatchStart(StopwatchStop(@))]
                  ELSE w2
        IN  /\ mode' = "disabled"
            /\ handler' = "disabled_init"
            /\ IF r.raised
               THEN /\ exception' = "AttributeError"
                    /\ Commit(r.w)
                    /\ calls' = r.calls
                    /\ UNCHANGED << autoscript_files, autoscript_file_counter,
                                    autoscript_filename >>
               ELSE /\ exception' = "None"
                    /\ Commit(w3)
                    /\ calls' = r.calls \o c1
                                 \o (IF selects /\ hw.user_interface
                                     THEN << output_user_message(listing[1]) >>
                                     ELSE <<>>)
                    /\ autoscript_files' = IF hw.autoscript THEN listing
                                           ELSE autoscript_files
                    /\ autoscript_file_counter' = IF selects THEN 0
                                                 ELSE autoscript_file_counter
                    /\ autoscript_filename' = IF selects THEN listing[1]
                                              ELSE autoscript_filename
    /\ command_fetched' = FALSE
    /\ UNCHANGED << image_processor, target_server, hw, directory, operator, autoscript, current_command, current_command_complete,
                    previous_button_state >>

\* One iteration of the loop of MyRobot.Disabled.
DisabledTick ==
    /\ exception = "None"
    /\ mode = "disabled"
    /\ \E start_button \in {0, 1}, restart_button \in {0, 1} :
        LET s == StopAll(World)
            selecting == hw.user_interface /\ hw.autoscript
                         /\ Len(autoscript_files) > 0
            ui == Controls(IF start_button = 1 THEN {START} ELSE {},
                           IF restart_button = 1 THEN {START} ELSE {})
            pressed == /\ selecting
                       /\ get_button_state(ui, KDRIVER, START) = 1
                       /\ button_state_changed(ui, previous_button_state,
                                               KDRIVER, START)
            counter == IF pressed
                       THEN NextFileCounter(autoscript_file_counter, autoscript_files)
                       ELSE autoscript_file_counter
            raised == check_restart(restart_button)
        IN  /\ handler' = "disabled_tick"
            /\ autoscript_file_counter' = counter
            /\ autoscript_filename' = IF pressed THEN autoscript_files[counter + 1]
                                      ELSE autoscript_filename
            /\ previous_button_state' =
                  IF selecting
                  THEN store_button_states(ui, previous_button_state, KDRIVER)
                  ELSE previous_button_state
            /\ calls' = s.calls
                         \o (IF pressed
                             THEN << output_user_message(
                                         autoscript_files[counter + 1]) >>
                             ELSE <<>>)
            /\ exception' = raised
            /\ Commit(IF raised = "None" THEN Wait(s.w) ELSE s.w)
    /\ UNCHANGED << image_processor, target_server, hw, directory, operator, mode, autoscript, autoscript_files, current_command,
                    current_command_complete, entries, abandoned, tick_command,
                    autoscript_finished, previous_finished, command_fetched >>

\* A run state reset that leaves the in-progress flag of the old session.
ResetRunState_KeepsProgress(w) == w

\* _autonomous_init, on a selected script: no command is in progress.
ResetRunState(w) == [w EXCEPT !.in_progress = FALSE]

\* MyRobot._autonomous_init, on entry to Autonomous(); exists is whether the
\* selected file can be read.
AutonomousInit ==
    /\ exception = "None"
    /\ mode # "autonomous"
    /\ entries > 0
    /\ entries' = entries - 1
    /\ tick_command' = None
    /\ autoscript_finished' = FALSE
    /\ previous_finished' = FALSE
    /\ \E exists \in BOOLEAN :
        LET w1 == IF hw.timer THEN [World EXCEPT !.timer = StopwatchStop(@)]
                  ELSE World
            loads == hw.autoscript /\ autoscript_filename # "None"
            parsed == parse(autoscript_filename, exists)
            first == get_next_command(parsed)
            w2 == IF loads THEN ResetRunState(w1) ELSE w1
            r == set_robot_state(w2, AUTONOMOUS)
        IN  /\ mode' = "autonomous"
            /\ handler' = "autonomous_init"
            /\ autoscript' = IF loads THEN first.autoscript ELSE autoscript
            /\ command_fetched' = loads
            /\ current_command' = IF loads THEN first.command ELSE current_command
            /\ current_command_complete' = IF loads THEN FALSE
                                           ELSE current_command_complete
            /\ exception' = IF r.raised THEN "AttributeError" ELSE "None"
            /\ Commit(r.w)
            /\ calls' = IF r.raised THEN r.calls
                        ELSE r.calls
                             \o << Call("watchdog", "SetEnabled", <<0>>, "None") >>
    /\ UNCHANGED << image_processor, target_server, hw, directory, operator, autoscript_files, autoscript_file_counter,
                    autoscript_filename, previous_button_state, abandoned >>

\* One iteration of the loop of MyRobot.Autonomous.
AutonomousTick ==
    /\ exception = "None"
    /\ mode = "autonomous"
    /\ \E angle \in Angles, moved \in Moves, reached \in BOOLEAN,
          restart_button \in {0, 1} :
        LET w0 == read_sensors(World, angle, moved)
            executes == Executes(autoscript_filename, current_command)
            d == IF executes THEN Dispatch(current_command, w0, reached)
                 ELSE StopAll(w0)
            adv == Advance(executes /\ d.complete, current_command, autoscript,
                           d.w.in_progress)
            raised == check_restart(restart_button)
        IN  /\ handler' = "autonomous_tick"
            /\ tick_command' = current_command
            /\ autoscript_finished' = ~executes
            /\ previous_finished' = autoscript_finished
            /\ command_fetched' = (executes /\ d.complete)
            /\ current_command_complete' = FALSE
            /\ current_command' = adv.command
            /\ autoscript' = adv.autoscript
            /\ calls' = d.calls
            /\ exception' = raised
            /\ Commit(LET w1 == [d.w EXCEPT !.in_progress = adv.in_progress]
                      IN  IF raised = "None" THEN Wait(w1) ELSE w1)
    /\ UNCHANGED << image_processor, target_server, hw, directory, operator, mode, autoscript_files, autoscript_file_counter,
                    autoscript_filename, previous_button_state, entries, abandoned >>

(* ---------------- MyRobot.OperatorControl: one iteration --------------- *)
\* DriveTrain.arcade_drive as MyRobot calls it: the stick values go to the
\* robot drive.
arcade_drive(dt, linear, turn) ==
    IF dt.robot_drive THEN << ArcadeDrive(linear, turn) >> ELSE <<>>

\* A block of statements: the objects afterwards, the calls made and the
\* exception raised in it ("None" when it ran to its end).
Block(w, cs, raised) == [w |-> w, calls |-> cs, raised |-> raised]

\* Block b followed by block next; next does not run when b raised.
After(b, next) ==
    IF b.raised # "None" THEN b
    ELSE Block(next.w, b.calls \o next.calls, next.raised)

\* A prep routine whose first step positions the catapult instead of
\* lowering the feeder arms.
PrepRoutine_ShooterFirst(w, step, position, reached) ==
    IF step \in {1, 2} /\ hw.shooter
    THEN LET r == Shooter_set_position(w.shooter, position, 1, reached)
         IN  [ w |-> [w EXCEPT !.shooter = r.obj],
               step |-> IF r.ret THEN -1 ELSE 2,
               calls |-> << Call("shooter", "set_position", <<position, 1>>,
                                 Ret(r.ret)) >> \o r.calls ]
    ELSE [ w |-> w, step |-> step, calls |-> <<>> ]

\* One of the two prep routines of _perform_tele_auto: step 1 lowers the
\* feeder arms, step 2 positions the catapult until it reports True.
PrepRoutine(w, step, position, reached) ==
    IF step = 1
    THEN [ w |-> IF hw.feeder THEN [w EXCEPT !.feeder_position = DOWN] ELSE w,
           step |-> 2,
           calls |-> IF hw.feeder
                     THEN << Call("feeder", "set_position", <<DOWN>>, "None") >>
                          \o Feeder_set_position(DOWN)
                     ELSE <<>> ]
    ELSE IF step = 2 /\ hw.shooter
    THEN LET r == Shooter_set_position(w.shooter, position, 1, reached)
         IN  [ w |-> [w EXCEPT !.shooter = r.obj],
               step |-> IF r.ret THEN -1 ELSE step,
               calls |-> << Call("shooter", "set_position", <<position, 1>>,
                                 Ret(r.ret)) >> \o r.calls ]
    ELSE [ w |-> w, step |-> step, calls |-> <<>> ]

\* MyRobot._perform_tele_auto
perform_tele_auto(w, reached) ==
    LET fires == w.hold_to_shoot_step = 2 /\ hw.shooter
        r1 == auto_fire(w.shooter, w.hold_to_shoot_power, reached)
        w1 == IF fires
              THEN [w EXCEPT !.shooter = r1.obj,
                             !.hold_to_shoot_step = IF r1.ret THEN -1 ELSE @]
              ELSE w
        c1 == IF fires
              THEN << Call("shooter", "auto_fire", <<w.hold_to_shoot_power>>,
                           Ret(r1.ret)) >> \o r1.calls
              ELSE <<>>
        p2 == PrepRoutine(w1, w1.prep_for_feed_step, catapult_feed_position,
                          reached)
        w2 == [p2.w EXCEPT !.prep_for_feed_step = p2.step]
        p3 == PrepRoutine(w2, w2.prep_for_low_pass_step,
                          catapult_low_pass_position, reached)
        w3 == [p3.w EXCEPT !.prep_for_low_pass_step = p3.step]
        passes == w3.truss_pass_step # -1 /\ hw.shooter
        r4 == auto_fire(w3.shooter, truss_pass_power, reached)
        w4 == IF passes
              THEN [w3 EXCEPT !.shooter = r4.obj,
                              !.truss_pass_step = IF r4.ret THEN -1 ELSE @]
              ELSE w3
        c4 == IF passes
              THEN << Call("shooter", "auto_fire", <<truss_pass_power>>,
                           Ret(r4.ret)) >> \o r4.calls
              ELSE <<>>
    IN  Block(w4, c1 \o p2.calls \o p3.calls \o c4, "None")

\* MyRobot._check_alternate_speed_modes
check_alternate_speed_modes(w, ui) ==
    Block([w EXCEPT !.driver_alternate =
                        (get_button_state(ui, KDRIVER, LEFTBUMPER) = 1)],
          <<>>, "None")

\* MyRobot._check_ignore_limits: self._shooter is used without a check.
check_ignore_limits(w, ui) ==
    LET state == get_button_state(ui, KSCORING, START) = 1
    IN  IF ~hw.shooter THEN Block(w, <<>>, "AttributeError")
        ELSE Block([w EXCEPT !.shooter = Shooter_ignore_encoder_limits(@, state)],
                   << Call("shooter", "ignore_encoder_limits",
                           << IF state THEN 1 ELSE 0 >>, "None") >>,
                   "None")

\* MyRobot._check_tele_auto_requests: self._timer is used without a check.
check_tele_auto_requests(w, ui, stored) ==
    LET edge(button) == /\ get_button_state(ui, KSCORING, button) = 1
                        /\ button_state_changed(ui, stored, KSCORING, button)
        trigger == button_state_changed(ui, stored, KSCORING, RIGHTTRIGGER)
        held == get_button_state(ui, KSCORING, RIGHTTRIGGER) = 1
        duration == elapsed_time_in_secs(StopwatchStop(w.timer))
        w1 == IF ~trigger THEN w
              ELSE IF held
              THEN [w EXCEPT !.timer = StopwatchStart(@),
                             !.hold_to_shoot_step = 1]
              ELSE [w EXCEPT !.timer = StopwatchStop(@),
                             !.hold_to_shoot_power =
                                 Min((duration * 100) \div max_hold_to_shoot_time,
                                     100),
                             !.hold_to_shoot_step = 2]
        c1 == IF ~trigger THEN <<>>
              ELSE IF held THEN << Call("timer", "start", <<>>, "None") >>
              ELSE << Call("timer", "stop", <<>>, "None"),
                      Call("timer", "elapsed_time_in_secs", <<>>, "None") >>
        w2 == [w1 EXCEPT !.prep_for_feed_step = IF edge(Y) THEN 1 ELSE @,
                         !.prep_for_low_pass_step = IF edge(X) THEN 1 ELSE @,
                         !.truss_pass_step = IF edge(LEFTBUMPER) THEN 1 ELSE @]
    IN  IF trigger /\ ~hw.timer THEN Block(w, <<>>, "AttributeError")
        ELSE Block(w2, c1, "None")

\* MyRobot._control_drive_train: with the sticks at rest self._drive_train
\* is used without a check.
control_drive_train(w, ui) ==
    IF ui.driver_left_y # 0 \/ ui.driver_right_x # 0
    THEN Block(w,
               IF hw.drive_train
               THEN << Call("drive_train", "arcade_drive",
                            <<ui.driver_left_y, ui.driver_right_x>>, "None") >>
                    \o arcade_drive(w.drive_train, ui.driver_left_y,
                                    ui.driver_right_x)
               ELSE <<>>,
               "None")
    ELSE IF ~hw.drive_train THEN Block(w, <<>>, "AttributeError")
    ELSE Block(w, << Call("drive_train", "arcade_drive", <<0, 0>>, "None") >>
                     \o arcade_drive(w.drive_train, 0, 0),
               "None")

\* No tele-auto routine is running.
TeleAutoIdle(w) ==
    /\ w.hold_to_shoot_step = -1
    /\ w.prep_for_feed_step = -1
    /\ w.prep_for_low_pass_step = -1
    /\ w.truss_pass_step = -1

\* The four step variables set to -1.
AbortTeleAuto(w) ==
    [w EXCEPT !.hold_to_shoot_step = -1, !.prep_for_feed_step = -1,
              !.prep_for_low_pass_step = -1, !.truss_pass_step = -1]

\* A manual shooter control that sends the idle command whenever the stick
\* is at rest.
control_shooter_AlwaysIdles(w, ui) ==
    IF ui.scoring_left_y # 0
    THEN IF hw.shooter
         THEN Block(AbortTeleAuto(w),
                    << Call("shooter", "move", <<ui.scoring_left_y>>, "None") >>
                       \o Shooter_move(ui.scoring_left_y),
                    "None")
         ELSE Block(w, <<>>, "None")
    ELSE IF ~hw.shooter THEN Block(w, <<>>, "AttributeError")
    ELSE Block(w, << Call("shooter", "move", <<0>>, "None") >> \o Shooter_move(0),
               "None")

\* MyRobot._control_shooter: with the stick at rest and no routine running
\* self._shooter is used without a check.
control_shooter(w, ui) ==
    IF ui.scoring_left_y # 0
    THEN IF hw.shooter
         THEN Block(AbortTeleAuto(w),
                    << Call("shooter", "move", <<ui.scoring_left_y>>, "None") >>
                       \o Shooter_move(ui.scoring_left_y),
                    "None")
         ELSE Block(w, <<>>, "None")
    ELSE IF ~TeleAutoIdle(w) THEN Block(w, <<>>, "None")
    ELSE IF ~hw.shooter THEN Block(w, <<>>, "AttributeError")
    ELSE Block(w, << Call("shooter", "move", <<0>>, "None") >> \o Shooter_move(0),
               "None")

\* MyRobot._control_feeder: the arm toggle and the stop at rest use
\* self._feeder without a check.
control_feeder(w, ui, stored) ==
    LET toggles == /\ get_button_state(ui, KSCORING, RIGHTBUMPER) = 1
                   /\ button_state_changed(ui, stored, KSCORING, RIGHTBUMPER)
        position == IF w.feeder_position = UP THEN DOWN ELSE UP
        w1 == IF toggles
              THEN [w EXCEPT !.feeder_position = position,
                             !.prep_for_feed_step = -1,
                             !.prep_for_low_pass_step = -1]
              ELSE w
        c1 == IF toggles
              THEN << Call("feeder", "set_position", <<position>>, "None") >>
                   \o Feeder_set_position(position)
              ELSE <<>>
        direction == IF ui.scoring_right_y > 0 THEN Direction_IN ELSE Direction_OUT
    IN  IF toggles /\ ~hw.feeder
        THEN Block([w EXCEPT !.feeder_position = position], <<>>, "AttributeError")
        ELSE IF ui.scoring_right_y # 0
        THEN Block(w1,
                   c1 \o (IF hw.feeder
                          THEN << Call("feeder", "feed",
                                       <<direction, fabs(ui.scoring_right_y)>>,
                                       "None") >>
                               \o Feeder_feed(direction, fabs(ui.scoring_right_y))
                          ELSE <<>>),
                   "None")
        ELSE IF ~hw.feeder THEN Block(w1, c1, "AttributeError")
        ELSE Block(w1, c1 \o << Call("feeder", "feed", <<STOP, 0>>, "None") >>
                          \o Feeder_feed(STOP, 0),
                   "None")

\* A kill switch that leaves the truss pass running.
check_tele_auto_kill_SparesTrussPass(w, ui) ==
    Block(IF get_button_state(ui, KSCORING, BACK) = 1
          THEN [AbortTeleAuto(w) EXCEPT !.truss_pass_step = w.truss_pass_step]
          ELSE w,
          <<>>, "None")

\* MyRobot._check_tele_auto_kill
check_tele_auto_kill(w, ui) ==
    Block(IF get_button_state(ui, KSCORING, BACK) = 1 THEN AbortTeleAuto(w) ELSE w,
          <<>>, "None")

\* MyRobot._check_debug_request
check_debug_request(w, ui, stored) ==
    LET asked == /\ get_button_state(ui, KDRIVER, BACK) = 1
                 /\ button_state_changed(ui, stored, KDRIVER, BACK)
    IN  Block(w,
              IF asked
              THEN (IF hw.drive_train
                    THEN << Call("drive_train", "log_current_state", <<>>, "None") >>
                    ELSE <<>>)
                   \o (IF hw.shooter
                       THEN << Call("shooter", "log_current_state", <<>>, "None") >>
                       ELSE <<>>)
              ELSE <<>>,
              "None")

\* The user controlled part of an iteration of MyRobot.OperatorControl.
UserControl(w, ui, stored) ==
    LET b1 == check_alternate_speed_modes(w, ui)
        b2 == After(b1, check_ignore_limits(b1.w, ui))
        b3 == After(b2, check_tele_auto_requests(b2.w, ui, stored))
        b4 == After(b3, control_drive_train(b3.w, ui))
        b5 == After(b4, control_shooter(b4.w, ui))
        b6 == After(b5, control_feeder(b5.w, ui, stored))
        b7 == After(b6, check_tele_auto_kill(b6.w, ui))
    IN  After(b7, check_debug_request(b7.w, ui, stored))

\* MyRobot._operator_control_init, on entry to OperatorControl().
OperatorControlInit ==
    /\ exception = "None"
    /\ mode # "teleop"
    /\ entries > 0
    /\ entries' = entries - 1
    /\ abandoned' = Interrupted
    /\ tick_command' = None
    /\ autoscript_finished' = FALSE
    /\ previous_finished' = FALSE
    /\ command_fetched' = FALSE
    /\ LET w1 == IF hw.timer THEN [World EXCEPT !.timer = StopwatchStop(@)]
                 ELSE World
           r == set_robot_state(w1, TELEOP)
       IN  /\ mode' = "teleop"
           /\ handler' = "operator_control_init"
           /\ exception' = IF r.raised THEN "AttributeError" ELSE "None"
           /\ Commit(r.w)
           /\ calls' = IF r.raised THEN r.calls
                       ELSE r.calls
                            \o << Call("watchdog", "SetEnabled", <<1>>, "None"),
                                  Call("watchdog", "SetExpiration", <<>>, "None") >>
    /\ UNCHANGED << image_processor, target_server, hw, directory, operator, autoscript, autoscript_files,
                    autoscript_file_counter, autoscript_filename,
                    current_command, current_command_complete,
                    previous_button_state >>

\* One iteration of the loop of MyRobot.OperatorControl.
OperatorControlTick ==
    /\ exception = "None"
    /\ mode = "teleop"
    /\ \E ui \in operator, reached \in BOOLEAN :
        LET b0 == Block(read_sensors(World, drive_train.gyro_angle, 0),
                        << Call("watchdog", "Feed", <<>>, "None") >>, "None")
            b1 == After(b0, perform_tele_auto(b0.w, reached))
            b2 == IF hw.user_interface
                  THEN After(b1, UserControl(b1.w, ui, previous_button_state))
                  ELSE b1
            raised == IF b2.raised # "None" THEN b2.raised
                      ELSE check_restart(get_button_state(ui, KSCORING, START))
        IN  /\ handler' = "operator_control_tick"
            /\ previous_button_state' =
                  IF hw.user_interface /\ b2.raised = "None"
                  THEN store_button_states(ui,
                           store_button_states(ui, previous_button_state, KDRIVER),
                           KSCORING)
                  ELSE previous_button_state
            /\ calls' = b2.calls
            /\ exception' = raised
            /\ Commit(IF raised = "None" THEN Wait(b2.w) ELSE b2.w)
    /\ UNCHANGED << image_processor, target_server, hw, directory, operator, mode, autoscript, autoscript_files,
                    autoscript_file_counter, autoscript_filename,
                    current_command, current_command_complete, entries,
                    abandoned, tick_command, autoscript_finished,
                    previous_finished, command_fetched >>

Next ==
    \/ DisabledInit
    \/ DisabledTick
    \/ AutonomousInit
    \/ AutonomousTick
    \/ OperatorControlInit
    \/ OperatorControlTick

Spec == Init /\ [][Next]_vars

\* The verbs whose completion is decided by a sensor.
SensorVerbs == {"adjustheading", "drivedistance", "setheading", "auto_fire",
                "setshooter"}

\* A robot on which every object exists.
LiveInit == Init /\ (\A k \in DOMAIN hw : hw[k])

\* The Autonomous loop keeps iterating while the mode lasts: every iteration
\* ends with Wait(0.01) and loops back.
LiveSpec == LiveInit /\ [][Next]_vars /\ WF_vars(AutonomousTick)

(* ------------------------- observation helpers ------------------------ *)
\* The last handler was an iteration of the Autonomous loop.
AutonomousIteration == handler = "autonomous_tick"

\* cs holds a call of op on obj with these arguments.
HasCall(cs, obj, op, args) ==
    \E i \in DOMAIN cs : cs[i].obj = obj /\ cs[i].op = op /\ cs[i].args = args

\* cs holds a call on obj.
CallsOn(cs, obj) == \E i \in DOMAIN cs : cs[i].obj = obj

\* The run loop is Finished for command cmd: no script is active, the
\* command is absent, or its verb is invalid or end.
FinishedFor(cmd) ==
    \/ ~hw.autoscript
    \/ autoscript_filename = "None"
    \/ cmd = None
    \/ cmd.command \in {"invalid", "end"}

\* The iteration issued drive(0, 0), feed(STOP) and move(0) to every
\* subsystem that exists.
StopsIssued(cs) ==
    /\ hw.drive_train => HasCall(cs, "drive_train", "drive", <<0, 0>>)
    /\ hw.feeder => HasCall(cs, "feeder", "feed", <<STOP, 0>>)
    /\ hw.shooter => HasCall(cs, "shooter", "move", <<0>>)

(* -------------------------------- C1 ---------------------------------- *)
\* C1: on every Autonomous iteration that begins Finished (no script
\* selected, current command absent, or verb invalid / end) the loop issues
\* the stop call to every subsystem that exists; the second and later
\* Finished iterations do so as well.
C1_FinishedStopsEverySubsystem ==
    (AutonomousIteration /\ FinishedFor(tick_command)) => StopsIssued(calls)

\* A Finished iteration that follows a Finished iteration, with all three
\* subsystems present, has issued the three stops.
C1_Witness ==
    /\ AutonomousIteration
    /\ previous_finished
    /\ FinishedFor(tick_command)
    /\ hw.drive_train /\ hw.feeder /\ hw.shooter
    /\ StopsIssued(calls)
    /\ Len(calls) >= 3

(* -------------------------------- C2 ---------------------------------- *)
\* C2: whenever the run loop advances from a completed command to the next
\* command of the script, command_in_progress is false again before the
\* first iteration of the new command.
C2_InProgressFalseAfterAdvance ==
    (AutonomousIteration /\ ~autoscript_finished
        /\ current_command # tick_command)
    => ~current_command_in_progress

\* The verbs of the time-bounded commands, the arity of each known verb,
\* the object each verb targets and the operation it invokes.
TimeBoundedVerbs == {"wait", "drivetime", "turntime", "feedtime", "shoottime"}

KnownVerbs == {"wait", "adjustheading", "drivedistance", "drivetime",
               "setheading", "turntime", "setfeederposition", "feedtime",
               "auto_fire", "setshooter", "shoottime"}

VerbArity(verb) ==
    CASE verb \in {"wait", "setfeederposition", "auto_fire"} -> 1
      [] verb \in {"adjustheading", "drivedistance", "setheading", "setshooter"} -> 2
      [] verb \in {"drivetime", "turntime", "feedtime", "shoottime"} -> 3
      [] OTHER -> 0

VerbTarget(verb) ==
    CASE verb = "wait" -> "timer"
      [] verb \in {"adjustheading", "drivedistance", "drivetime", "setheading",
                   "turntime"} -> "drive_train"
      [] verb \in {"setfeederposition", "feedtime"} -> "feeder"
      [] verb \in {"auto_fire", "setshooter", "shoottime"} -> "shooter"
      [] OTHER -> "none"

VerbOperation(verb) ==
    CASE verb = "wait" -> "elapsed_time_in_secs"
      [] verb = "adjustheading" -> "adjust_heading"
      [] verb = "drivedistance" -> "drive_distance"
      [] verb = "drivetime" -> "drive_time"
      [] verb = "setheading" -> "set_heading"
      [] verb = "turntime" -> "turn_time"
      [] verb = "setfeederposition" -> "set_position"
      [] verb = "feedtime" -> "feed_time"
      [] verb = "auto_fire" -> "auto_fire"
      [] verb = "setshooter" -> "set_position"
      [] verb = "shoottime" -> "shoot_time"
      [] OTHER -> "none"

TargetExists(verb) ==
    CASE VerbTarget(verb) = "timer" -> hw.timer
      [] VerbTarget(verb) = "drive_train" -> hw.drive_train
      [] VerbTarget(verb) = "feeder" -> hw.feeder
      [] VerbTarget(verb) = "shooter" -> hw.shooter
      [] OTHER -> FALSE

\* The iteration that begins with cmd current executes it: the script is
\* not Finished, the verb is known, the arity fits, the target exists.
Invokes(cmd) ==
    /\ ~FinishedFor(cmd)
    /\ cmd.command \in KnownVerbs
    /\ Len(cmd.parameters) = VerbArity(cmd.command)
    /\ TargetExists(cmd.command)

\* Position i of cs resets and starts the timer that verb depends on.
IsTimerReset(c, verb) ==
    /\ c.obj = VerbTarget(verb)
    /\ c.op = IF verb = "wait" THEN "start" ELSE "reset_and_start_timer"

\* Position i of cs is the operation of cmd.
IsOperation(c, cmd) ==
    /\ c.obj = VerbTarget(cmd.command)
    /\ c.op = VerbOperation(cmd.command)
    /\ c.args = cmd.parameters

ResetBeforeOperation(cs, cmd) ==
    \E i, j \in DOMAIN cs :
        /\ i < j
        /\ IsTimerReset(cs[i], cmd.command)
        /\ IsOperation(cs[j], cmd)
        /\ \A k \in 1..(j - 1) : ~IsOperation(cs[k], cmd)

NoTimerReset(cs, cmd) ==
    \A i \in DOMAIN cs : ~IsTimerReset(cs[i], cmd.command)

(* -------------------------------- C3 ---------------------------------- *)
\* C3: for every time-bounded command (wait, drivetime, turntime, feedtime,
\* shoottime) at any position of a script, the first iteration on which the
\* command is current resets and starts the owning timer before the first
\* invocation of the operation, and the continuing iterations of the same
\* command do not reset it again.
C3_TimerResetOnFirstIterationOnly ==
    [][ ( /\ handler' = "autonomous_tick"
          /\ handler \in {"autonomous_init", "autonomous_tick"}
          /\ current_command.command \in TimeBoundedVerbs
          /\ Invokes(current_command) )
        => IF command_fetched
           THEN ResetBeforeOperation(calls', current_command)
           ELSE NoTimerReset(calls', current_command) ]_vars

(* -------------------------------- C4 ---------------------------------- *)
\* An Autonomous iteration found the script Finished.
Finished == AutonomousIteration /\ autoscript_finished

\* C4: if iterations keep occurring, time advances and no sensor-based
\* command stays current forever, every Autonomous session reaches Finished
\* (or ends by a mode change or the operator restart), whatever commands the
\* script holds.
C4_EveryScriptReachesFinished ==
    ([]<>(current_command.command \notin SensorVerbs))
    => [](mode = "autonomous"
          => <>(Finished \/ mode # "autonomous" \/ exception # "None"))

(* -------------------------------- C5 ---------------------------------- *)
\* C5: an Autonomous iteration is Finished exactly when no script is active
\* or the current command is absent or has the verb invalid or end; and an
\* iteration that executes a command has no end or invalid command before
\* it in the script, so nothing that follows one is ever dispatched.
C5_FinishedExactlyOnEndInvalidAbsent ==
    AutonomousIteration =>
        /\ autoscript_finished <=> FinishedFor(tick_command)
        /\ autoscript_finished => \A i \in DOMAIN calls :
                                     calls[i].ret \notin {"True", "False"}
        /\ ~autoscript_finished =>
              \A i \in 1..(autoscript.command_iterator - 1) :
                  autoscript.commands[i].command \notin {"invalid", "end"}

\* A Finished iteration on an end command that has another command after it.
C5_Witness ==
    /\ AutonomousIteration
    /\ autoscript_finished
    /\ previous_finished
    /\ tick_command.command = "end"
    /\ autoscript.loaded
    /\ autoscript.command_iterator < Len(autoscript.commands)

(* -------------------------------- C6 ---------------------------------- *)
\* The operations a script command can invoke, timer resets included.
DispatchOperations ==
    {"adjust_heading", "drive_distance", "drive_time", "set_heading",
     "turn_time", "set_position", "feed_time", "auto_fire", "shoot_time",
     "reset_and_start_timer", "elapsed_time_in_secs", "start"}

NoDispatch(cs) == \A i \in DOMAIN cs : cs[i].op \notin DispatchOperations

\* C6: Finished is terminal for a session: the iteration after a Finished
\* iteration of the same session is Finished too, keeps the current command
\* and invokes no operation of a script command.
C6_FinishedIsTerminal ==
    [][ (AutonomousIteration /\ autoscript_finished
            /\ handler' = "autonomous_tick")
        => /\ autoscript_finished'
           /\ NoDispatch(calls')
           /\ current_command' = current_command
           /\ autoscript' = autoscript ]_vars

\* A Finished iteration after a Finished iteration, on a script that has
\* commands left behind an invalid command.
C6_Witness ==
    /\ AutonomousIteration
    /\ autoscript_finished
    /\ previous_finished
    /\ tick_command.command = "invalid"
    /\ autoscript.command_iterator < Len(autoscript.commands)
    /\ NoDispatch(calls)

(* -------------------------------- C7 ---------------------------------- *)
Subsystems == {"drive_train", "feeder", "shooter"}

\* cs holds a subsystem operation that returned False.
ReturnedFalse(cs) ==
    \E i \in DOMAIN cs : cs[i].obj \in Subsystems /\ cs[i].ret = "False"

\* Every subsystem operation of cs that returned False is invoked in ds with
\* the same parameters.
InvokedAgain(cs, ds) ==
    \A i \in DOMAIN cs :
        (cs[i].obj \in Subsystems /\ cs[i].ret = "False")
        => \E j \in DOMAIN ds : /\ ds[j].obj = cs[i].obj
                                /\ ds[j].op = cs[i].op
                                /\ ds[j].args = cs[i].args

\* C7: an iteration in which the subsystem operation returns False does not
\* call get_next_command and keeps the current command, and the next
\* iteration invokes the same operation with the same parameters.
C7_FalseKeepsTheCommand ==
    [][ /\ (handler' = "autonomous_tick" /\ ReturnedFalse(calls'))
           => (current_command' = current_command /\ autoscript' = autoscript
               /\ ~command_fetched')
        /\ (AutonomousIteration /\ ReturnedFalse(calls)
            /\ handler' = "autonomous_tick")
           => InvokedAgain(calls, calls') ]_vars

\* The second iteration of drivetime,2: drive_time returned False again, one
\* time unit after the timer was started.
C7_Witness ==
    /\ AutonomousIteration
    /\ tick_command.command = "drivetime"
    /\ current_command = tick_command
    /\ \E i \in DOMAIN calls : calls[i].op = "drive_time" /\ calls[i].ret = "False"
    /\ drive_train.movement_timer.running
    /\ drive_train.movement_timer.elapsed = 2

(* -------------------------------- C8 ---------------------------------- *)
\* The run state after get_next_command in the state before an iteration.
FetchesNext ==
    /\ command_fetched'
    /\ current_command' = get_next_command(autoscript).command
    /\ autoscript' = get_next_command(autoscript).autoscript

\* C8: an iteration whose current command has a known verb and a parameter
\* count other than the verb's arity (an empty list included) invokes no
\* subsystem method and no timer reset, and fetches the next command in the
\* same iteration.
C8_ArityMismatchCompletesAtOnce ==
    [][ ( /\ handler' = "autonomous_tick"
          /\ ~FinishedFor(current_command)
          /\ current_command.command \in KnownVerbs
          /\ Len(current_command.parameters) # VerbArity(current_command.command) )
        => /\ calls' = <<>>
           /\ current_command_in_progress' = current_command_in_progress
           /\ FetchesNext ]_vars

\* The iteration on drivetime with one parameter: nothing was called and
\* the next command of the script is current.
C8_Witness ==
    /\ AutonomousIteration
    /\ tick_command = AutoScriptCommand("drivetime", <<1>>)
    /\ hw.drive_train
    /\ calls = <<>>
    /\ current_command = AutoScriptCommand("wait", <<>>)

(* -------------------------------- C9 ---------------------------------- *)
\* C9: an iteration whose current command has an unrecognised verb (other
\* than invalid and end) invokes no subsystem method and fetches the next
\* command in the same iteration.
C9_UnknownVerbCompletesAtOnce ==
    [][ ( /\ handler' = "autonomous_tick"
          /\ ~FinishedFor(current_command)
          /\ current_command.command \notin KnownVerbs )
        => /\ calls' = <<>>
           /\ FetchesNext ]_vars

\* The iteration on the verb bogus.
C9_Witness ==
    /\ AutonomousIteration
    /\ tick_command.command = "bogus"
    /\ calls = <<>>
    /\ command_fetched
    /\ current_command = AutoScriptCommand("drivetime", <<1>>)

(* -------------------------------- C10 --------------------------------- *)
\* The object exists.
Exists(obj) ==
    CASE obj = "timer" -> hw.timer
      [] obj = "drive_train" -> hw.drive_train
      [] obj = "feeder" -> hw.feeder
      [] obj = "shooter" -> hw.shooter
      [] OTHER -> TRUE

\* What the drive operation op needs inside the drive train is missing.
DriveUnavailable(op) ==
    CASE op \in {"adjust_heading", "set_heading"} -> ~hw.robot_drive \/ ~hw.gyro
      [] op = "drive_distance" -> ~hw.robot_drive \/ ~hw.accelerometer
      [] op \in {"drive_time", "turn_time"} -> ~hw.robot_drive \/ ~hw.movement_timer
      [] OTHER -> FALSE

\* C10: an iteration whose command targets an absent object (drive train,
\* feeder, shooter, or the wait timer) completes the command and calls no
\* method of an absent object; a drive operation invoked on a drive train
\* whose robot drive, gyro, accelerometer or movement timer is unavailable
\* returns True and sends nothing to the motors.
C10_AbsentSubsystemCompletes ==
    [][ handler' = "autonomous_tick" =>
        /\ \A obj \in {"timer", "drive_train", "feeder", "shooter"} :
              ~Exists(obj) => ~CallsOn(calls', obj)
        /\ ( /\ ~FinishedFor(current_command)
             /\ current_command.command \in KnownVerbs
             /\ ~TargetExists(current_command.command) )
           => FetchesNext
        /\ \A i \in DOMAIN calls' :
              (calls'[i].obj = "drive_train" /\ DriveUnavailable(calls'[i].op))
              => /\ calls'[i].ret = "True"
                 /\ ~CallsOn(calls', "robot_drive")
                 /\ FetchesNext ]_vars

\* adjustheading on a drive train without gyro: adjust_heading was invoked,
\* returned True, and no motor command was sent.
C10_Witness ==
    /\ AutonomousIteration
    /\ hw.drive_train /\ ~hw.gyro
    /\ tick_command.command = "adjustheading"
    /\ \E i \in DOMAIN calls : calls[i].op = "adjust_heading" /\ calls[i].ret = "True"
    /\ ~CallsOn(calls, "robot_drive")
    /\ command_fetched

\* setfeederposition on a robot without feeder: the command completed and
\* nothing was called.
C10_WitnessAbsent ==
    /\ AutonomousIteration
    /\ ~hw.feeder
    /\ tick_command.command = "setfeederposition"
    /\ calls = <<>>
    /\ command_fetched

(* -------------------------------- C11 --------------------------------- *)
\* The last handler was one iteration of a mode loop.
Iteration ==
    handler \in {"disabled_tick", "autonomous_tick", "operator_control_tick"}

\* C11: no iteration of the Disabled, Autonomous or Teleop loop ends in an
\* exception other than the restart the operator asked for with SCORING
\* START, whichever of the objects are absent.
C11_OnlyRestartRaises ==
    Iteration => exception \in {"None", "Restart"}

(* ------------------- several sessions of one robot --------------------- *)
\* Number of mode entries followed when sessions are abandoned and resumed
\* (Disabled, Autonomous, Disabled or Teleop, Autonomous again).
MaxSessions == 4

\* The robot on which every object exists.
AllPresent == CHOOSE h \in HardwareConfigs : \A k \in DOMAIN h : h[k]

\* A practice directory of two scripts.
PracticeListing == << "drive.as", "timed.as" >>

\* A complete robot with the practice scripts, followed through MaxSessions
\* mode entries.
SessionInit == InitWith(AllPresent, PracticeListing, MaxSessions, BasicInputs)

SessionSpec == SessionInit /\ [][Next]_vars

(* -------------------------------- C12 --------------------------------- *)
\* The last handler was an entry to Autonomous with a script selected.
EnteredWithScript ==
    /\ handler = "autonomous_init"
    /\ hw.autoscript
    /\ autoscript_filename # "None"

\* C12: every entry to Autonomous with a selected script parses that script
\* again and resets the run state: no command complete, none in progress, and
\* the current command is the first command of the script (absent when the
\* file gave no command), whatever an earlier session left behind.
C12_EntryRestartsTheScript ==
    EnteredWithScript =>
        /\ ~current_command_complete
        /\ ~current_command_in_progress
        /\ autoscript.loaded =>
              /\ autoscript.commands = read_script(ScriptFiles[autoscript_filename])
              /\ autoscript.command_iterator = 1
              /\ current_command = autoscript.commands[1]
        /\ ~autoscript.loaded => current_command = None

\* Autonomous is entered again after a session that was abandoned while a
\* later command of the script was in progress, and starts at the first one.
C12_Witness ==
    /\ EnteredWithScript
    /\ autoscript.loaded
    /\ abandoned # None
    /\ abandoned # autoscript.commands[1]
    /\ current_command = autoscript.commands[1]
    /\ ~current_command_in_progress

(* -------------------------------- C13 --------------------------------- *)
\* The calls of the safety stop of one iteration: on the three subsystems,
\* and by them on their motors.
SafetyStopCalls ==
    { Call("drive_train", "drive", <<0, 0>>, "None"), ArcadeDrive(0, 0),
      Call("feeder", "feed", <<STOP, 0>>, "None"),
      Call("arms", "Set", <<0, 0>>, "None"),
      Call("shooter", "move", <<0>>, "None"),
      Call("shooter_controller", "Set", <<0>>, "None") }

OnlySafetyStops(cs) == \A i \in DOMAIN cs : cs[i] \in SafetyStopCalls

\* cs commands no motor and no solenoid.
NoActuatorCall(cs) == \A i \in DOMAIN cs : cs[i].op \notin {"ArcadeDrive", "Set"}

\* The Autonomous session runs without a script: none was selected, or the
\* selected file could not be read.
SessionWithoutScript ==
    /\ mode = "autonomous"
    /\ autoscript_filename = "None" \/ ~autoscript.loaded

\* C13: when no script is selected or the selected file does not exist, the
\* entry to Autonomous commands no actuator and every iteration of the
\* session, the first included, is Finished and makes no call but the safety
\* stops.
C13_NoScriptFinishesAtOnce ==
    SessionWithoutScript =>
        /\ handler = "autonomous_init" => NoActuatorCall(calls)
        /\ handler = "autonomous_tick" =>
              /\ autoscript_finished
              /\ OnlySafetyStops(calls)

\* The first iteration of a session whose selected file does not exist, on a
\* robot with the three subsystems: it is Finished and has stopped them.
C13_Witness ==
    /\ SessionWithoutScript
    /\ hw.autoscript /\ autoscript_filename # "None"
    /\ handler = "autonomous_tick"
    /\ ~previous_finished
    /\ autoscript_finished
    /\ hw.drive_train /\ hw.feeder /\ hw.shooter
    /\ StopsIssued(calls)
    /\ exception = "None"

(* -------------------------------- C14 --------------------------------- *)
\* cs commands every motor that exists to zero and no motor to anything else.
ActuatorsIdle(cs) ==
    /\ (hw.drive_train /\ hw.robot_drive)
          => HasCall(cs, "robot_drive", "ArcadeDrive", <<0, 0>>)
    /\ hw.feeder => HasCall(cs, "arms", "Set", <<0, 0>>)
    /\ hw.shooter => HasCall(cs, "shooter_controller", "Set", <<0>>)
    /\ \A i \in DOMAIN cs :
          cs[i].op \in {"ArcadeDrive", "Set"} /\ cs[i].obj # "solenoid"
              => cs[i].args \in { <<0, 0>>, <<0>> }

\* cs does not invoke the operation of cmd.
NotInvoked(cs, cmd) == \A i \in DOMAIN cs : ~IsOperation(cs[i], cmd)

\* The step is the first iteration of Disabled or Teleop after an
\* Autonomous session that was abandoned with a command in progress.
FirstTickAfterAbandon ==
    /\ abandoned # None
    /\ \/ handler = "disabled_init" /\ handler' = "disabled_tick"
       \/ handler = "operator_control_init" /\ handler' = "operator_control_tick"

\* C14: the first iteration of Disabled or Teleop after an Autonomous
\* session abandoned in the middle of a command commands the drive, the
\* feeder and the shooter to idle and does not invoke the abandoned command.
C14_FirstTickIdles ==
    [][ FirstTickAfterAbandon
          => ActuatorsIdle(calls') /\ NotInvoked(calls', abandoned) ]_vars

\* The same for Disabled alone.
C14_DisabledHalf ==
    [][ (FirstTickAfterAbandon /\ handler = "disabled_init")
          => ActuatorsIdle(calls') /\ NotInvoked(calls', abandoned) ]_vars

\* In Teleop the abandoned command is not invoked again.
C14_TeleopHalf ==
    [][ FirstTickAfterAbandon => NotInvoked(calls', abandoned) ]_vars

(* -------------------------------- C15 --------------------------------- *)
\* An Autonomous session on the script drivedistance,2,1 / wait,1 / end.
DriveScriptRunning ==
    /\ mode = "autonomous"
    /\ autoscript_filename = "drive.as"
    /\ autoscript.loaded
    /\ \A k \in DOMAIN hw : hw[k]

\* C15: on the script drivedistance,2.0,0.5 / wait,1.0 / end every iteration
\* invokes drive_distance with the script's parameters and keeps the command
\* until the call returns True; the first wait iteration resets the timer,
\* the later ones do not, and wait stays current until more than its
\* duration has elapsed; from then on every iteration is Finished, issues the
\* three stops and keeps the command.
C15_DriveWaitEndScenario ==
    [][ (DriveScriptRunning /\ handler' = "autonomous_tick") =>
          LET verb == current_command.command
              resets == HasCall(calls', "timer", "start", <<>>)
              elapsed == IF resets THEN 0 ELSE elapsed_time_in_secs(timer)
          IN  /\ verb \in {"drivedistance", "wait", "end"}
              /\ verb = "drivedistance" =>
                    /\ \E i \in DOMAIN calls' :
                          /\ calls'[i].obj = "drive_train"
                          /\ calls'[i].op = "drive_distance"
                          /\ calls'[i].args = <<2, 1>>
                          /\ current_command' =
                                IF calls'[i].ret = "True"
                                THEN AutoScriptCommand("wait", <<1>>)
                                ELSE current_command
                    /\ ~resets
                    /\ ~autoscript_finished'
              /\ verb = "wait" =>
                    /\ resets <=> ~current_command_in_progress
                    /\ current_command_in_progress'
                    /\ current_command' =
                          IF elapsed > 1 THEN AutoScriptCommand("end", <<>>)
                          ELSE current_command
                    /\ NotInvoked(calls', AutoScriptCommand("drivedistance", <<2, 1>>))
                    /\ ~autoscript_finished'
              /\ verb = "end" =>
                    /\ autoscript_finished'
                    /\ StopsIssued(calls')
                    /\ OnlySafetyStops(calls')
                    /\ current_command' = current_command ]_vars

\* The script has run to its end: a second Finished iteration on the end
\* command, after the wait used the timer, has stopped the three subsystems.
C15_Witness ==
    /\ DriveScriptRunning
    /\ handler = "autonomous_tick"
    /\ tick_command = AutoScriptCommand("end", <<>>)
    /\ previous_finished
    /\ current_command_in_progress
    /\ drive_train.distance_traveled > 0
    /\ StopsIssued(calls)

(* -------------------------------- C16 --------------------------------- *)
\* The last handler fed the watchdog.
WatchdogFed == HasCall(calls, "watchdog", "Feed", <<>>)

\* C16: every iteration of the Teleop loop and of the Autonomous loop feeds
\* the watchdog.
C16_WatchdogFedEveryTick ==
    handler \in {"autonomous_tick", "operator_control_tick"} => WatchdogFed

\* The same for Teleop alone.
C16_TeleopHalf ==
    handler = "operator_control_tick" => WatchdogFed

(* -------------------------------- C17 --------------------------------- *)
\* DRIVER START went from released to pressed in the iteration of the step.
StartPressed ==
    /\ START \notin previous_button_state[KDRIVER]
    /\ START \in previous_button_state'[KDRIVER]

\* The selection is an index into the catalog and names the file there.
SelectionInCatalog ==
    Len(autoscript_files) > 0 =>
        /\ autoscript_file_counter \in 0..(Len(autoscript_files) - 1)
        /\ autoscript_filename = autoscript_files[autoscript_file_counter + 1]

\* C17: while the catalog is non-empty the selection index is within
\* 0 .. number of scripts - 1 and the selected file name is the catalog entry
\* at the index; the index is 0 after every entry to Disabled; a Disabled
\* iteration advances it by one, wrapping from the last script to 0, exactly
\* when DRIVER START is newly pressed; and the catalog changes only on entry
\* to Disabled.
C17_SelectionRotatesInCatalog ==
    /\ [] SelectionInCatalog
    /\ [] ((handler = "disabled_init" /\ exception = "None"
               /\ Len(autoscript_files) > 0)
             => autoscript_file_counter = 0)
    /\ [][ (handler' = "disabled_tick" /\ Len(autoscript_files) > 0) =>
              autoscript_file_counter' =
                  IF StartPressed
                  THEN (autoscript_file_counter + 1) % Len(autoscript_files)
                  ELSE autoscript_file_counter ]_vars
    /\ [][ autoscript_files' # autoscript_files
              => handler' = "disabled_init" ]_vars

\* In the first mode entered, Disabled, presses of DRIVER START have taken
\* the selection past the last script and back to the first one.
C17_Witness ==
    /\ handler = "disabled_tick"
    /\ entries = MaxSessions - 1
    /\ Len(autoscript_files) > 1
    /\ START \in previous_button_state[KDRIVER]
    /\ autoscript_file_counter = 0
    /\ autoscript_filename = autoscript_files[1]

(* -------------------------------- C18 --------------------------------- *)
\* The step is a Disabled iteration that can select: the user interface and
\* the script object exist and the catalog has more than one script.
SelectingTick ==
    /\ handler' = "disabled_tick"
    /\ hw.user_interface /\ hw.autoscript
    /\ Len(autoscript_files) > 1

\* DRIVER START was down in the iteration before the step and in the
\* iteration of the step.
StartHeld ==
    /\ START \in previous_button_state[KDRIVER]
    /\ START \in previous_button_state'[KDRIVER]

\* The step leaves the selection as it was, and shows no new file name.
SelectionKept ==
    /\ autoscript_file_counter' = autoscript_file_counter
    /\ autoscript_filename' = autoscript_filename
    /\ ~HasCall(calls', "user_interface", "output_user_message",
                <<autoscript_filename'>>)

\* C18: a Disabled iteration during which DRIVER START is still held down
\* does not advance the script selection, however many such iterations
\* follow one another; the selection advances, by one script, exactly in an
\* iteration in which the button is down after having been up.
C18_HeldStartAdvancesOnce ==
    [][ SelectingTick =>
          /\ StartHeld => SelectionKept
          /\ StartPressed <=> ~SelectionKept
          /\ StartPressed =>
                autoscript_file_counter' =
                    NextFileCounter(autoscript_file_counter, autoscript_files) ]_vars

\* In the first mode entered, Disabled, START has been pressed once and is
\* still down in an iteration that did not advance the selection.
C18_Witness ==
    /\ handler = "disabled_tick"
    /\ entries = MaxEntries - 1
    /\ hw.user_interface /\ hw.autoscript
    /\ Len(autoscript_files) > 1
    /\ START \in previous_button_state[KDRIVER]
    /\ ~HasCall(calls, "user_interface", "output_user_message",
                <<autoscript_filename>>)
    /\ autoscript_file_counter = 1
    /\ exception = "None"

(* -------------------------------- C19 --------------------------------- *)
\* The commands returned by k successive calls of get_next_command on a.
RECURSIVE NextCommands(_, _)
NextCommands(a, k) ==
    IF k = 0 THEN <<>>
    ELSE LET r == get_next_command(a)
         IN  << r.command >> \o NextCommands(r.autoscript, k - 1)

\* The lines of the file of the running session, without the empty ones.
SessionLines ==
    SelectSeq(ScriptFiles[autoscript_filename], LAMBDA l : l # <<>>)

\* A script is loaded in the running Autonomous session.
ScriptLoaded == mode = "autonomous" /\ autoscript.loaded

MalformedLines == { i \in DOMAIN SessionLines : SessionLines[i][1] = Garbled }

WellFormedLines == DOMAIN SessionLines \ MalformedLines

Paths == DOMAIN ScriptFiles \cup {"missing.as"}

C22_ConstructorKeepsItsArguments ==
    current_command # None =>
        LET c == current_command.command
            p == current_command.parameters
        IN  /\ AutoScriptCommand_init(c, p).command = c
            /\ AutoScriptCommand_init(c, p).parameters = p

(* -------------------------------- C23 --------------------------------- *)
\* Position i of cs is a call of drive_time or turn_time on the drive train.
IsTimedDrive(cs, i) ==
    /\ cs[i].obj = "drive_train"
    /\ cs[i].op \in {"drive_time", "turn_time"}

\* The movement timer is reset in cs ahead of position i.
ResetAhead(cs, i) ==
    \E j \in 1..(i - 1) :
        cs[j].obj = "drive_train" /\ cs[j].op = "reset_and_start_timer"

MaxRemaining == 40

\* The tier (1 near, 2 medium, 3 far) selected for an amount remaining.
Tier(remaining, far_threshold, medium_threshold) ==
    SpeedTier(remaining, far_threshold, medium_threshold, 3, 2, 1)

\* The tier the three-tier policy assigns to an amount remaining.
PolicyTier(remaining, far_threshold, medium_threshold) ==
    CASE remaining > far_threshold -> 3
      [] remaining > medium_threshold /\ remaining <= far_threshold -> 2
      [] OTHER -> 1

\* The far and medium thresholds of the four drive operations.
TierThresholds ==
    { <<auto_far_time_threshold, auto_medium_time_threshold>>,
      <<auto_far_distance_threshold, auto_medium_distance_threshold>>,
      <<auto_far_heading_threshold, auto_medium_heading_threshold>> }

\* The selection as a function of the amount remaining, for the thresholds of
\* every drive operation.
TierIsMonotone ==
    \A t \in TierThresholds :
        /\ \A r \in 0..MaxRemaining :
              Tier(r, 10 * t[1], 10 * t[2]) = PolicyTier(r, 10 * t[1], 10 * t[2])
        /\ Tier(2 * t[1], 10 * t[1], 10 * t[2]) = 1
        /\ Tier(15 * t[1], 10 * t[1], 10 * t[2]) = 3
        /\ \A r1, r2 \in 0..MaxRemaining :
              r1 <= r2 => Tier(r1, 10 * t[1], 10 * t[2])
                              <= Tier(r2, 10 * t[1], 10 * t[2])

\* The ratio of a tier, for linear driving and for turning.
LinearRatio(tier) ==
    CASE tier = 3 -> auto_far_linear_speed_ratio
      [] tier = 2 -> auto_medium_linear_speed_ratio
      [] OTHER -> auto_near_linear_speed_ratio

TurningRatio(tier) ==
    CASE tier = 3 -> auto_far_turning_speed_ratio
      [] tier = 2 -> auto_medium_turning_speed_ratio
      [] OTHER -> auto_near_turning_speed_ratio

\* The speed the call at position i of the step's calls must send to the
\* motors while it returns False, as <<linear, turn>> magnitudes.
PolicySpeed(i) ==
    LET c == calls'[i]
        elapsed == IF ResetAhead(calls', i) THEN 0
                   ELSE elapsed_time_in_secs(drive_train.movement_timer)
        heading_left == fabs((drive_train'.initial_heading + c.args[1])
                                - drive_train'.gyro_angle)
        distance_left == fabs(c.args[1]) - fabs(drive_train'.distance_traveled)
    IN  CASE c.op = "drive_time" ->
               << c.args[3] * LinearRatio(PolicyTier(c.args[1] - elapsed,
                      auto_far_time_threshold, auto_medium_time_threshold)), 0 >>
          [] c.op = "turn_time" ->
               << 0, c.args[3] * TurningRatio(PolicyTier(c.args[1] - elapsed,
                      auto_far_time_threshold, auto_medium_time_threshold)) >>
          [] c.op = "drive_distance" ->
               << c.args[2] * LinearRatio(PolicyTier(distance_left,
                      auto_far_distance_threshold,
                      auto_medium_distance_threshold)), 0 >>
          [] c.op = "adjust_heading" ->
               << 0, c.args[2] * TurningRatio(PolicyTier(heading_left,
                      auto_far_heading_threshold,
                      auto_medium_heading_threshold)) >>

ComponentInit(dt, s) ==
    /\ hw = AllPresent
    /\ directory = PracticeListing
    /\ operator = BasicInputs
    /\ mode = "init"
    /\ exception = "None"
    /\ autoscript = NewAutoScript
    /\ autoscript_files = <<>>
    /\ autoscript_file_counter = 0
    /\ autoscript_filename = "None"
    /\ current_command = None
    /\ current_command_complete = FALSE
    /\ current_command_in_progress = FALSE
    /\ current_feeder_position = 0
    /\ driver_alternate = FALSE
    /\ hold_to_shoot_step = -1
    /\ hold_to_shoot_power = 0
    /\ prep_for_feed_step = -1
    /\ prep_for_low_pass_step = -1
    /\ truss_pass_step = -1
    /\ timer = NewStopwatch
    /\ drive_train = dt
    /\ feeder = NewFeeder
    /\ shooter = s
    /\ previous_button_state = [c \in {KDRIVER, KSCORING} |-> {}]
    /\ entries = 0
    /\ abandoned = None
    /\ handler = "init"
    /\ tick_command = None
    /\ autoscript_finished = FALSE
    /\ previous_finished = FALSE
    /\ command_fetched = FALSE
    /\ calls = <<>>
    /\ target_server = NewTargetServer
    /\ image_processor = NewImageProcessor

\* What an operation of the shooter leaves alone.
OutsideShooter ==
    << hw, directory, operator, mode, exception, autoscript, autoscript_files,
       autoscript_file_counter, autoscript_filename, current_command,
       current_command_complete, current_command_in_progress,
       current_feeder_position, driver_alternate, hold_to_shoot_step,
       hold_to_shoot_power, prep_for_feed_step, prep_for_low_pass_step,
       truss_pass_step, timer, drive_train, feeder, previous_button_state,
       entries, abandoned, tick_command, autoscript_finished,
       previous_finished, command_fetched, target_server, image_processor >>

(* ----------------------------- Shooter pitch --------------------------- *)
\* Parameters of the shooter's pitch movement; ratios and times are scaled
\* to integers.
pitch_up_direction == 1
pitch_down_direction == -1
shooter_auto_far_speed_ratio == 3
shooter_auto_medium_speed_ratio == 2
shooter_auto_near_speed_ratio == 1
shooter_auto_medium_time_threshold == 1
shooter_auto_far_time_threshold == 2

\* Longest pitch movement asked for.
MaxPitchTime == 4

\* Speeds asked of the pitch movement.
PitchSpeeds == {1, 2}

\* Shooter objects after _initialize: with or without the pitch motor and the
\* encoder, with the encoder limits set (> 0) or not (-1).
PitchShooters ==
    { [ timer |-> NewStopwatch, ignore_encoder_limits |-> FALSE,
        pitch_enabled |-> p, encoder_enabled |-> e,
        encoder_max_limit |-> mx, encoder_min_limit |-> mn ] :
      p \in BOOLEAN, e \in BOOLEAN, mx \in {-1, 1}, mn \in {-1, 1} }

\* self._pitch_controller.Set(speed, 0)
PitchSet(speed) == Call("pitch_controller", "Set", <<speed, 0>>, "None")

\* Shooter.set_pitch
set_pitch(s, time, direction, speed) ==
    IF ~s.pitch_enabled
    THEN OpResult(s, TRUE, <<>>)
    ELSE
      LET time_left == time - elapsed_time_in_secs(s.timer)
          at_limit == /\ s.encoder_enabled
                      /\ ~s.ignore_encoder_limits
                      /\ \/ s.encoder_max_limit > 0 /\ direction = DOWN
                         \/ s.encoder_min_limit > 0 /\ direction = UP
          directional_speed == IF direction = UP THEN pitch_up_direction
                               ELSE pitch_down_direction
      IN  IF at_limit \/ time_left < shooter_time_threshold \/ time_left < 0
          THEN OpResult([s EXCEPT !.timer = StopwatchStop(@)], TRUE,
                        << PitchSet(0) >>)
          ELSE OpResult(s, FALSE,
                        << PitchSet(directional_speed * speed *
                             (IF time_left > shooter_auto_far_time_threshold
                              THEN shooter_auto_far_time_threshold
                              ELSE IF time_left > shooter_auto_medium_time_threshold
                              THEN shooter_auto_medium_time_threshold
                              ELSE shooter_auto_near_speed_ratio)) >>)

\* A caller starts the pitch movement: Shooter.reset_and_start_timer.
ShooterResetTimer ==
    /\ shooter' = Shooter_reset_and_start_timer(shooter)
    /\ handler' = "reset_and_start_timer"
    /\ calls' = <<>>
    /\ UNCHANGED OutsideShooter

\* A caller's tick: Shooter.set_pitch with the arguments of the movement.
ShooterSetPitch ==
    \E time \in 0..MaxPitchTime, direction \in {UP, DOWN}, speed \in PitchSpeeds :
        LET r == set_pitch(shooter, time, direction, speed)
        IN  /\ shooter' = r.obj
            /\ handler' = "set_pitch"
            /\ calls' = << Call("shooter", "set_pitch", <<time, direction, speed>>,
                                Ret(r.ret)) >> \o r.calls
            /\ UNCHANGED OutsideShooter

\* Shooter.ignore_encoder_limits
ShooterIgnoreLimits ==
    \E state \in BOOLEAN :
        /\ shooter' = Shooter_ignore_encoder_limits(shooter, state)
        /\ handler' = "ignore_encoder_limits"
        /\ calls' = <<>>
        /\ UNCHANGED OutsideShooter

\* wpilib.Wait(0.01) between two ticks.
ShooterWait ==
    /\ shooter' = [shooter EXCEPT !.timer = StopwatchWait(@)]
    /\ handler' = "Wait"
    /\ calls' = <<>>
    /\ UNCHANGED OutsideShooter

ShooterInit ==
    \E s \in PitchShooters :
        ComponentInit(NewDriveTrain(TRUE, TRUE, TRUE, TRUE), s)

ShooterNext ==
    \/ ShooterResetTimer
    \/ ShooterSetPitch
    \/ ShooterIgnoreLimits
    \/ ShooterWait

ShooterSpec == ShooterInit /\ [][ShooterNext]_vars

(* ------------------------------- C25 ---------------------------------- *)
\* The speed ratio of the tier that time_left selects.
PitchRatio(time_left) ==
    IF time_left > shooter_auto_far_time_threshold THEN shooter_auto_far_speed_ratio
    ELSE IF time_left > shooter_auto_medium_time_threshold
    THEN shooter_auto_medium_speed_ratio
    ELSE shooter_auto_near_speed_ratio

\* C25: on a continuing tick of set_pitch (it returned False), the speed
\* given to the pitch motor is direction x speed x the speed ratio of the
\* tier selected by time_left: far above the far time threshold, medium above
\* the medium time threshold, near otherwise.
C25_PitchSpeedFollowsTier ==
    (handler = "set_pitch" /\ calls[1].ret = "False") =>
        LET time == calls[1].args[1]
            direction == calls[1].args[2]
            speed == calls[1].args[3]
            time_left == time - elapsed_time_in_secs(shooter.timer)
        IN  calls[2] = PitchSet((IF direction = UP THEN pitch_up_direction
                                 ELSE pitch_down_direction)
                                * speed * PitchRatio(time_left))

\* The near tier, where the source does use the speed ratio.
C25_NearTier ==
    (handler = "set_pitch" /\ calls[1].ret = "False"
       /\ calls[1].args[1] - elapsed_time_in_secs(shooter.timer)
            <= shooter_auto_medium_time_threshold) =>
        calls[2] = PitchSet((IF calls[1].args[2] = UP THEN pitch_up_direction
                             ELSE pitch_down_direction)
                            * calls[1].args[3] * shooter_auto_near_speed_ratio)

(* ------------------ Target server: TargetHandler.handle ---------------- *)
\* What the target server leaves alone: the whole robot.
OutsideTargetServer ==
    << hw, directory, operator, mode, exception, autoscript, autoscript_files,
       autoscript_file_counter, autoscript_filename, current_command,
       current_command_complete, current_command_in_progress,
       current_feeder_position, driver_alternate, hold_to_shoot_step,
       hold_to_shoot_power, prep_for_feed_step, prep_for_low_pass_step,
       truss_pass_step, timer, drive_train, feeder, shooter,
       previous_button_state, entries, abandoned, tick_command,
       autoscript_finished, previous_finished, command_fetched, calls,
       image_processor >>

\* What arrives on the connection: a line with a batch of targets, a line
\* of text that yields no Target (bad JSON, not a list, no usable
\* dictionary), a line of bytes that str(.., "utf-8") cannot decode, or
\* nothing (the connection is closed).
Lines == {"targets", "garbled", "undecodable", "closed"}

\* A handler that gives up the connection on a line it cannot use.
AfterLine_GarbledCloses(line) ==
    IF line \in {"closed", "undecodable", "garbled"} THEN "closed"
    ELSE "full"

\* Where the handler goes after reading line: an exception of the read
\* statement and an empty read leave the loop, a line without targets goes
\* to the sleep at the end of the loop, a batch of targets to the queue.
AfterLine(line) ==
    IF line \in {"closed", "undecodable"} THEN "closed"
    ELSE IF line = "garbled" THEN "sleep"
    ELSE "full"

\* The handler reads a line and builds new_targets from it.
HandleReadline ==
    /\ target_server.pc = "readline"
    /\ \E line \in Lines :
          /\ line = "targets" => target_server.received < MaxMessages
          /\ target_server' =
                [target_server EXCEPT
                   !.pc = AfterLine(line),
                   !.line = line,
                   !.new_targets = IF line = "targets"
                                   THEN target_server.received + 1 ELSE 0,
                   !.received = IF line = "targets" THEN @ + 1 ELSE @]
    /\ handler' = "readline"
    /\ UNCHANGED OutsideTargetServer

\* if self.server.data_queue.full()
HandleFull ==
    /\ target_server.pc = "full"
    /\ target_server' = [target_server EXCEPT
                           !.was_full = Queue_full(target_server.data_queue),
                           !.pc = IF Queue_full(target_server.data_queue)
                                  THEN "get" ELSE "put"]
    /\ handler' = "full"
    /\ UNCHANGED OutsideTargetServer

\* self.server.data_queue.get(): waits while the queue is empty, then takes
\* the oldest entry.
HandleGet ==
    /\ target_server.pc = "get"
    /\ Len(target_server.data_queue) > 0
    /\ target_server' = [target_server EXCEPT !.data_queue = Tail(@),
                                              !.pc = "put"]
    /\ handler' = "get"
    /\ UNCHANGED OutsideTargetServer

\* self.server.data_queue.put(new_targets): waits while the queue is full,
\* then appends.
HandlePut ==
    /\ target_server.pc = "put"
    /\ Len(target_server.data_queue) < QueueCapacity
    /\ target_server' = [target_server EXCEPT
                           !.data_queue = Append(@, target_server.new_targets),
                           !.pc = "sleep"]
    /\ handler' = "put"
    /\ UNCHANGED OutsideTargetServer

\* time.sleep(0.1), then the next turn of the loop.
HandleSleep ==
    /\ target_server.pc = "sleep"
    /\ target_server' = [target_server EXCEPT !.pc = "readline"]
    /\ handler' = "sleep"
    /\ UNCHANGED OutsideTargetServer

\* serve_forever: the next connection is handled.
ServeNext ==
    /\ target_server.pc = "closed"
    /\ target_server' = [target_server EXCEPT !.pc = "readline"]
    /\ handler' = "serve_forever"
    /\ UNCHANGED OutsideTargetServer

\* The robot core, on its own thread, takes the oldest entry of the queue.
CoreGet ==
    /\ Len(target_server.data_queue) > 0
    /\ target_server' = [target_server EXCEPT !.data_queue = Tail(@)]
    /\ handler' = "core"
    /\ UNCHANGED OutsideTargetServer

TargetInit == ComponentInit(NewDriveTrain(TRUE, TRUE, TRUE, TRUE), NewShooter)

TargetNext ==
    \/ HandleReadline
    \/ HandleFull
    \/ HandleGet
    \/ HandlePut
    \/ HandleSleep
    \/ ServeNext
    \/ CoreGet

TargetSpec == TargetInit /\ [][TargetNext]_vars

(* ------------------------------- C26 ---------------------------------- *)
\* The handler's step from one position of handle to another.
HandlerStep(from, to) == target_server.pc = from /\ target_server'.pc = to

\* C26: the target queue never holds more entries than its capacity; a valid
\* message that finds the queue full has the oldest entry dropped, and when
\* the handler has processed the message its batch is the newest entry of
\* the queue.
C26_QueueBoundedNewestWins ==
    /\ [](Len(target_server.data_queue) <= QueueCapacity)
    /\ [][ /\ (target_server.pc = "full" /\ target_server'.pc # "full"
                 /\ Len(target_server.data_queue) >= QueueCapacity)
              => HandlerStep("full", "get")
           /\ HandlerStep("get", "put")
              => target_server'.data_queue = Tail(target_server.data_queue)
           /\ HandlerStep("put", "sleep")
              => /\ Len(target_server'.data_queue) > 0
                 /\ target_server'.data_queue[Len(target_server'.data_queue)]
                      = target_server.new_targets
                 /\ target_server.new_targets = target_server.received
                 /\ Len(target_server'.data_queue) <= QueueCapacity ]_vars

\* A message has just been processed that found the queue full: the queue is
\* full again, its newest entry is that message's batch, and the oldest
\* entry it holds arrived after the first message.
C26_Witness ==
    /\ handler = "put"
    /\ target_server.was_full
    /\ Len(target_server.data_queue) = QueueCapacity
    /\ target_server.data_queue[QueueCapacity] = target_server.received
    /\ target_server.data_queue[1] > 1

(* ------------------- Drive train: DriveTrain.drive --------------------- *)
\* What an operation of the drive train leaves alone.
OutsideDriveTrain ==
    << hw, directory, operator, exception, autoscript, autoscript_files,
       autoscript_file_counter, autoscript_filename, current_command,
       current_command_complete, current_command_in_progress,
       current_feeder_position, driver_alternate, hold_to_shoot_step,
       hold_to_shoot_power, prep_for_feed_step, prep_for_low_pass_step,
       truss_pass_step, timer, feeder, shooter, previous_button_state,
       entries, abandoned, tick_command, autoscript_finished,
       previous_finished, command_fetched, target_server, image_processor >>

\* Positions of a joystick axis, scaled to integers.
Sticks == {-1, 0, 1}

\* The modes of the robot and the state each one gives the drive train.
ModeState(m) ==
    IF m = "disabled" THEN DISABLED
    ELSE IF m = "autonomous" THEN AUTONOMOUS
    ELSE TELEOP

\* A mode begins: DriveTrain.set_robot_state.
DriveSetRobotState ==
    \E m \in {"disabled", "autonomous", "teleop"} :
        LET r == DriveTrain_set_robot_state(drive_train, ModeState(m))
        IN  /\ mode' = m
            /\ drive_train' = r.dt
            /\ handler' = "set_robot_state"
            /\ calls' = r.calls
            /\ UNCHANGED OutsideDriveTrain

\* Manual driving: DriveTrain.drive with the driver's stick values.
DriveManual ==
    /\ mode = "teleop"
    /\ \E directional_speed \in Sticks, directional_turn \in Sticks,
          alternate \in BOOLEAN :
          LET r == drive(drive_train, directional_speed, directional_turn, alternate)
          IN  /\ drive_train' = r.dt
              /\ handler' = "drive"
              /\ calls' = << Call("drive_train", "drive",
                                  <<directional_speed, directional_turn, alternate>>,
                                  "None") >> \o r.calls
              /\ UNCHANGED << mode, OutsideDriveTrain >>

\* The stop call of a Disabled tick and of a Finished Autonomous tick:
\* self._drive_train.drive(0.0, 0.0, False).
DriveStop ==
    /\ mode \in {"disabled", "autonomous"}
    /\ LET r == drive(drive_train, 0, 0, FALSE)
       IN  /\ drive_train' = r.dt
           /\ handler' = "stop"
           /\ calls' = << Call("drive_train", "drive", <<0, 0, FALSE>>, "None") >>
                       \o r.calls
           /\ UNCHANGED << mode, OutsideDriveTrain >>

DriveTrainInit == ComponentInit(NewDriveTrain(TRUE, TRUE, TRUE, TRUE), NewShooter)

DriveTrainNext ==
    \/ DriveSetRobotState
    \/ DriveManual
    \/ DriveStop

DriveTrainSpec == DriveTrainInit /\ [][DriveTrainNext]_vars

(* ------------------------------- C27 ---------------------------------- *)
\* C27: on a tick on which the robot is Disabled or Finished in Autonomous,
\* the stop call drive(0.0, 0.0, False) delivers zero linear and zero turn
\* speed to the drive motors on that tick, whatever the drive train output
\* last.
C27_StopDeliversZero ==
    handler = "stop" => calls[2] = ArcadeDrive(0, 0)

\* The stop call does deliver zero when the last speeds drive sent were
\* within one maximum change of zero.
C27_StopFromSlow ==
    [][ (handler' = "stop"
          /\ fabs(drive_train.previous_linear_speed) <= maximum_linear_speed_change
          /\ fabs(drive_train.previous_turn_speed) <= maximum_turn_speed_change)
        => calls'[2] = ArcadeDrive(0, 0) ]_vars

(* ------------------------------- C28 ---------------------------------- *)
\* The speeds drive asked for before the rate limit.
Asked(call) ==
    LET ratio_l == IF call.args[3] THEN alternate_linear_speed_ratio
                   ELSE normal_linear_speed_ratio
        ratio_t == IF call.args[3] THEN alternate_turning_speed_ratio
                   ELSE normal_turning_speed_ratio
    IN  << ratio_l * call.args[1], ratio_t * call.args[2] >>

\* The last handler was a call of DriveTrain.drive.
DriveCalled == handler \in {"drive", "stop"}

\* C28: over any sequence of drive calls, the linear speed sent to the motors
\* differs from the one sent before by at most maximum_linear_speed_change
\* and the turn speed by at most maximum_turn_speed_change, and
\* _previous_linear_speed / _previous_turn_speed are the last values drive
\* sent.
C28_DriveIsRateLimited ==
    /\ [](DriveCalled =>
            /\ drive_train.previous_linear_speed = calls[2].args[1]
            /\ drive_train.previous_turn_speed = calls[2].args[2])
    /\ [][ IF handler' \in {"drive", "stop"}
           THEN /\ fabs(calls'[2].args[1] - drive_train.previous_linear_speed)
                     <= maximum_linear_speed_change
                /\ fabs(calls'[2].args[2] - drive_train.previous_turn_speed)
                     <= maximum_turn_speed_change
                /\ DriveCalled =>
                     /\ fabs(calls'[2].args[1] - calls[2].args[1])
                          <= maximum_linear_speed_change
                     /\ fabs(calls'[2].args[2] - calls[2].args[2])
                          <= maximum_turn_speed_change
           ELSE /\ drive_train'.previous_linear_speed
                     = drive_train.previous_linear_speed
                /\ drive_train'.previous_turn_speed
                     = drive_train.previous_turn_speed ]_vars

\* A drive call whose linear speed the limit held back, after a call that
\* had already sent a speed.
C28_Witness ==
    /\ handler = "drive"
    /\ calls[2].args[1] # Asked(calls[1])[1]
    /\ calls[2].args[1] # 0
    /\ fabs(Asked(calls[1])[1] - calls[2].args[1]) > maximum_linear_speed_change

(* ------------------------------- C29 ---------------------------------- *)
\* The handler called DriveTrain.adjust_heading (the adjustheading command).
AdjustCalled(cs) ==
    /\ cs # <<>>
    /\ cs[1].obj = "drive_train"
    /\ cs[1].op = "adjust_heading"

\* The drive train can turn to a heading: it has its motors and its gyro.
CanAdjust == hw.robot_drive /\ hw.gyro

\* C29: during one heading adjustment the target heading is fixed:
\* adjust_heading takes the gyro heading as initial heading on the first call
\* of the adjustment only, keeps it on the calls that continue it, and clears
\* the in-progress flag exactly when it returns True, so that the next
\* adjustheading command takes a fresh initial heading.
C29_InitialHeadingFixedWhileAdjusting ==
    [][ (AdjustCalled(calls') /\ CanAdjust) =>
          /\ IF drive_train.adjustment_in_progress
             THEN drive_train'.initial_heading = drive_train.initial_heading
             ELSE drive_train'.initial_heading = drive_train'.gyro_angle
          /\ drive_train'.adjustment_in_progress = (calls'[1].ret = "False") ]_vars

\* A call that continued an adjustment after the robot had turned away from
\* its initial heading.
C29_Witness ==
    /\ handler = "autonomous_tick"
    /\ AdjustCalled(calls)
    /\ CanAdjust
    /\ calls[1].ret = "False"
    /\ drive_train.adjustment_in_progress
    /\ drive_train.gyro_angle # drive_train.initial_heading

(* ------------------------------- C30 ---------------------------------- *)
\* A directory that holds the turning script only.
TurnListing == << "turn.as" >>

\* A complete robot with the turning script, followed through MaxSessions
\* mode entries.
TurnInit == InitWith(AllPresent, TurnListing, MaxSessions, BasicInputs)

TurnSpec == TurnInit /\ [][Next]_vars

\* C30: after a mode change (set_robot_state), also one that interrupted a
\* heading adjustment before it returned True, the first adjust_heading call
\* of the next adjustment takes the current gyro heading as its initial
\* heading.
C30_ModeChangeStartsAFreshAdjustment ==
    [][ (handler = "autonomous_init" /\ AdjustCalled(calls') /\ CanAdjust)
        => drive_train'.initial_heading = drive_train'.gyro_angle ]_vars

\* The same first call when the mode change interrupted no adjustment.
C30_NothingInterrupted ==
    [][ (handler = "autonomous_init" /\ AdjustCalled(calls') /\ CanAdjust
           /\ ~drive_train.adjustment_in_progress)
        => drive_train'.initial_heading = drive_train'.gyro_angle ]_vars

(* ------------------------------- C31 ---------------------------------- *)
\* A directory that holds the script of two drives only.
TwiceListing == << "twice.as" >>

\* A complete robot with the script of two consecutive drivedistance
\* commands.
TwiceInit == InitWith(AllPresent, TwiceListing, MaxEntries, BasicInputs)

TwiceSpec == TwiceInit /\ [][Next]_vars

\* The handler called DriveTrain.drive_distance (the drivedistance command).
DistanceCalled(cs) ==
    /\ cs # <<>>
    /\ cs[1].obj = "drive_train"
    /\ cs[1].op = "drive_distance"

\* The farthest the robot moves during one iteration.
MaxMove == CHOOSE m \in Moves : \A n \in Moves : n <= m

\* The command was fetched by the handler before and is invoked for the
\* first time; what it asks for cannot be covered within one iteration.
FirstLongDrive(cs) ==
    /\ command_fetched
    /\ DistanceCalled(cs)
    /\ fabs(cs[1].args[1]) - MaxMove >= distance_threshold

\* C31: each drivedistance command drives its distance measured from the
\* position at which it began: the first call of a command that asks for
\* more than the robot covers in one iteration does not return True, also
\* when the command before it was a drivedistance.
C31_DistanceMeasuredFromCommandStart ==
    [][ FirstLongDrive(calls') => calls'[1].ret = "False" ]_vars

\* The same for the first command of a session, whose distance the mode
\* change has reset.
C31_FirstCommandOfSession ==
    [][ (handler = "autonomous_init" /\ FirstLongDrive(calls'))
        => calls'[1].ret = "False" ]_vars

(* ------------------------------- C32 ---------------------------------- *)
\* The subsystem operations that script commands invoke.
SubsystemOperations ==
    {"adjust_heading", "drive_distance", "drive_time", "set_heading",
     "turn_time", "set_position", "feed_time", "auto_fire", "shoot_time"}

\* The positions of cs at which the loop invoked an operation of a script
\* command on a subsystem.
OperationCalls(cs) ==
    { i \in DOMAIN cs : /\ cs[i].obj \in {"drive_train", "feeder", "shooter"}
                        /\ cs[i].op \in SubsystemOperations }

\* cs holds one of the stop calls of a Finished iteration.
AnyStopCall(cs) ==
    \/ HasCall(cs, "drive_train", "drive", <<0, 0>>)
    \/ HasCall(cs, "feeder", "feed", <<STOP, 0>>)
    \/ HasCall(cs, "shooter", "move", <<0>>)

\* C32: an Autonomous iteration invokes at most one subsystem operation, and
\* only that of the command that was current when the iteration began, so a
\* command fetched in an iteration is first invoked in a later one; an
\* iteration that dispatches a command issues none of the Finished stop
\* calls, and a Finished iteration dispatches nothing.
C32_OneCommandPerTick ==
    AutonomousIteration =>
        /\ Cardinality(OperationCalls(calls)) <= 1
        /\ \A i \in OperationCalls(calls) :
              /\ Invokes(tick_command)
              /\ IsOperation(calls[i], tick_command)
        /\ ~Invokes(tick_command) => OperationCalls(calls) = {}
        /\ OperationCalls(calls) # {} => ~AnyStopCall(calls)
        /\ autoscript_finished => OperationCalls(calls) = {}
        /\ AnyStopCall(calls) => autoscript_finished

\* An iteration invoked the operation of its command, which completed, and
\* fetched a different command that invokes an operation too.
C32_Witness ==
    /\ AutonomousIteration
    /\ command_fetched
    /\ Cardinality(OperationCalls(calls)) = 1
    /\ current_command # tick_command
    /\ Invokes(current_command)

(* --------------------- Teleop with the tele-auto controls -------------- *)
\* Mode entries followed in a single Teleop session, and when Teleop is left
\* and entered again.
MaxTeleopEntries == 1
MaxPrepEntries == 3

\* An operator of the scoring controller during one Teleop session: at rest,
\* the shooter stick moved, the trigger, the truss-pass button, the arm
\* toggle or the kill switch held, both prep buttons pressed together, or
\* the kill switch pressed while the trigger is held.
TeleopInputs ==
    LET rest == Controls({}, {})
    IN  { rest, [rest EXCEPT !.scoring_left_y = 1] }
        \cup { Controls({}, {b}) : b \in {RIGHTTRIGGER, LEFTBUMPER,
                                          RIGHTBUMPER, BACK} }
        \cup { Controls({}, {RIGHTTRIGGER, BACK}), Controls({}, {Y, X}) }

\* A complete robot without scripts whose operator uses these controls.
TeleopInit == InitWith(AllPresent, <<>>, MaxTeleopEntries, TeleopInputs)

\* One Teleop session.
TeleopNext ==
    \/ OperatorControlInit
    \/ OperatorControlTick

TeleopSpec == TeleopInit /\ [][TeleopNext]_vars

\* An operator who uses the two prep buttons one at a time, the arm toggle,
\* the shooter stick and the kill switch.
PrepInputs ==
    LET rest == Controls({}, {})
    IN  { rest, [rest EXCEPT !.scoring_left_y = 1] }
        \cup { Controls({}, {b}) : b \in {Y, X, RIGHTBUMPER, BACK} }

\* A complete robot without scripts whose operator uses these controls.
PrepInit == InitWith(AllPresent, <<>>, MaxPrepEntries, PrepInputs)

\* Teleop sessions, left for Disabled and entered again.
PrepNext ==
    \/ OperatorControlInit
    \/ OperatorControlTick
    \/ DisabledInit

PrepSpec == PrepInit /\ [][PrepNext]_vars

(* ------------------------------- C33 ---------------------------------- *)
\* The last handler was an iteration of the Teleop loop.
TeleopIteration == handler = "operator_control_tick"

\* All four tele-auto step variables are -1.
StepsIdle ==
    /\ hold_to_shoot_step = -1
    /\ prep_for_feed_step = -1
    /\ prep_for_low_pass_step = -1
    /\ truss_pass_step = -1

\* The SCORING buttons held down during the last completed Teleop iteration.
ScoringButtons == previous_button_state[KSCORING]

\* cs holds a call of op on obj.
HasOperation(cs, obj, op) ==
    \E i \in DOMAIN cs : cs[i].obj = obj /\ cs[i].op = op

\* cs holds no call that a tele-auto routine makes; the feeder arms may be
\* set by the manual toggle.
NoTeleAutoAction(cs, toggled) ==
    /\ ~HasOperation(cs, "shooter", "auto_fire")
    /\ ~HasOperation(cs, "shooter", "set_position")
    /\ HasOperation(cs, "feeder", "set_position") => toggled

\* C33: when the tele-auto kill switch (SCORING BACK) is pressed on a Teleop
\* tick, all four step variables are -1 at the end of that tick; and a tick
\* that begins with all four at -1 performs no tele-auto action, so none is
\* performed until a new request is made.
C33_KillSwitchStopsTeleAuto ==
    [][ handler' = "operator_control_tick" =>
          /\ BACK \in ScoringButtons' => StepsIdle'
          /\ StepsIdle =>
               NoTeleAutoAction(calls', RIGHTBUMPER \in ScoringButtons'
                                        /\ RIGHTBUMPER \notin ScoringButtons) ]_vars

\* The kill switch was pressed while the trigger was held and its timer was
\* running.
C33_Witness ==
    /\ TeleopIteration
    /\ {RIGHTTRIGGER, BACK} \subseteq ScoringButtons
    /\ timer.running
    /\ StepsIdle

(* ------------------------------- C34 ---------------------------------- *)
\* The shooter received a manual command: move with a speed other than 0.
ManualShooterCommand(cs) ==
    \E i \in DOMAIN cs : /\ cs[i].obj = "shooter"
                         /\ cs[i].op = "move"
                         /\ cs[i].args # <<0>>

\* The shooter received the idle command move(0.0).
IdleShooterCommand(cs) == HasCall(cs, "shooter", "move", <<0>>)

\* The step variables were changed after _control_shooter ran: the arm
\* toggle or the kill switch was used in the iteration.
ChangedAfterShooterControl ==
    \/ BACK \in ScoringButtons'
    \/ RIGHTBUMPER \in ScoringButtons' /\ RIGHTBUMPER \notin ScoringButtons

C34_WitnessRoutine ==
    /\ TeleopIteration
    /\ ~StepsIdle
    /\ ~IdleShooterCommand(calls)
    /\ ~ManualShooterCommand(calls)

(* ------------------------------- C35 ---------------------------------- *)
\* The number of calls of cs that command the feeder arms down.
RECURSIVE ArmsDownCalls(_)
ArmsDownCalls(cs) ==
    IF cs = <<>> THEN 0
    ELSE (IF Head(cs).obj = "feeder" /\ Head(cs).op = "set_position"
             /\ Head(cs).args = <<DOWN>> THEN 1 ELSE 0)
         + ArmsDownCalls(Tail(cs))

\* The catapult was sent to position by a call of cs that returned ret.
Positioned(cs, position, ret) ==
    \E i \in DOMAIN cs : /\ cs[i].obj = "shooter"
                         /\ cs[i].op = "set_position"
                         /\ cs[i].args = <<position, 1>>
                         /\ cs[i].ret = ret

\* One iteration of a prep routine whose step variable goes from before to
\* after and which sends the catapult to position; cs are the iteration's
\* calls.  A step of 1 after the iteration is a new request, a step of -1
\* after a running routine an abort or the end.
PrepInOrder(before, after, position, cs) ==
    /\ before = -1 => /\ ~Positioned(cs, position, "True")
                      /\ ~Positioned(cs, position, "False")
                      /\ after \in {-1, 1}
    /\ before = 1 => /\ ~Positioned(cs, position, "True")
                     /\ ~Positioned(cs, position, "False")
                     /\ ArmsDownCalls(cs) >= 1
                     /\ after \in {2, 1, -1}
    /\ before = 2 => /\ Positioned(cs, position, "True")
                        \/ Positioned(cs, position, "False")
                     /\ Positioned(cs, position, "True") => after \in {-1, 1}
                     /\ after \in {2, 1, -1}
    /\ before \in {-1, 1, 2}

\* C35: a prep-for-feed or prep-for-low-pass routine proceeds in order:
\* step 1 lowers the feeder arms once and moves to step 2, step 2 invokes
\* shooter.set_position on each iteration until it returns True, then the
\* step returns to -1; the routine never positions the shooter before the
\* feeder arms were commanded down.
C35_PrepRoutineInOrder ==
    [][ handler' = "operator_control_tick" =>
          /\ PrepInOrder(prep_for_feed_step, prep_for_feed_step',
                         catapult_feed_position, calls')
          /\ PrepInOrder(prep_for_low_pass_step, prep_for_low_pass_step',
                         catapult_low_pass_position, calls')
          /\ ArmsDownCalls(calls') =
                (IF prep_for_feed_step = 1 THEN 1 ELSE 0)
                + (IF prep_for_low_pass_step = 1 THEN 1 ELSE 0)
                + (IF /\ RIGHTBUMPER \in ScoringButtons'
                      /\ RIGHTBUMPER \notin ScoringButtons
                      /\ current_feeder_position' = DOWN
                   THEN 1 ELSE 0) ]_vars

\* A prep-for-feed routine ran to its end: the catapult reached the feed
\* position and the step went back to -1.
C35_Witness ==
    /\ TeleopIteration
    /\ Positioned(calls, catapult_feed_position, "True")
    /\ prep_for_feed_step = -1
    /\ current_feeder_position = DOWN

(* ------------------------------- C36 ---------------------------------- *)
\* Teleop mode was just entered: _operator_control_init has run and no
\* iteration of the new session yet.
TeleopEntered == handler = "operator_control_init"

\* C36: on every entry to Teleop mode no tele-auto routine is active (all
\* four step variables are -1), even when the previous Teleop session was
\* left while a routine was still running.
C36_TeleopEntryHasNoRoutine == TeleopEntered => StepsIdle

\* What the code keeps instead: the entry to Teleop leaves the four step
\* variables as the previous session left them.
C36_EntryKeepsSteps ==
    [][ handler' = "operator_control_init" =>
          UNCHANGED << hold_to_shoot_step, prep_for_feed_step,
                       prep_for_low_pass_step, truss_pass_step >> ]_vars

(* ------------------------------- C37 ---------------------------------- *)
\* The handler has just read a line that decodes but yields no Target.
ReadGarbled == handler = "readline" /\ target_server.line = "garbled"

\* C37: in the connection handler a received line that is not valid JSON,
\* is not a list, or contains no constructible target leaves the queue
\* unchanged and keeps the connection open for the next line; only an empty
\* read or a read error ends the handler.
C37_BadLineKeepsConnection ==
    /\ [][ ReadGarbled' =>
             /\ target_server'.data_queue = target_server.data_queue
             /\ target_server'.pc = "sleep" ]_vars
    /\ [][ (target_server.pc = "sleep" /\ target_server'.pc # "sleep") =>
             /\ HandlerStep("sleep", "readline")
             /\ target_server'.data_queue = target_server.data_queue ]_vars
    /\ [](target_server.pc = "closed" =>
             target_server.line \in {"closed", "undecodable"})

\* After a line without targets the handler is reading the next line, and
\* the queue still holds a batch received before.
C37_Witness ==
    /\ handler = "sleep"
    /\ target_server.line = "garbled"
    /\ target_server.pc = "readline"
    /\ Len(target_server.data_queue) > 0

(* ------------------------------- C38 ---------------------------------- *)
\* The handler is at a queue operation that cannot proceed: get() on an
\* empty queue or put() on a full one.
HandlerBlocked ==
    \/ target_server.pc = "get" /\ Len(target_server.data_queue) = 0
    \/ target_server.pc = "put"
         /\ Len(target_server.data_queue) >= QueueCapacity

\* C38: with a consumer thread that may remove entries from the target
\* queue at any moment, the handler's enqueue step (check full, drop oldest,
\* put) never blocks: in every interleaving the handler completes the step
\* and goes on to read the next line.
C38_EnqueueNeverBlocks == ~HandlerBlocked

\* The half that the code keeps: put() always finds room, because only the
\* handler adds entries.
C38_PutNeverBlocks ==
    target_server.pc = "put" => Len(target_server.data_queue) < QueueCapacity

(* ------------- Driver station: ImageProcessor.process ----------------- *)
\* Connection attempts, targets sent and send-loop failures followed.
MaxConnects == 5
MaxSent == 5
MaxFailures == 2

\* What the image processor leaves alone: the robot and its target server.
OutsideImageProcessor ==
    << hw, directory, operator, mode, exception, autoscript, autoscript_files,
       autoscript_file_counter, autoscript_filename, current_command,
       current_command_complete, current_command_in_progress,
       current_feeder_position, driver_alternate, hold_to_shoot_step,
       hold_to_shoot_power, prep_for_feed_step, prep_for_low_pass_step,
       truss_pass_step, timer, drive_train, feeder, shooter,
       previous_button_state, entries, abandoned, tick_command,
       autoscript_finished, previous_finished, command_fetched, calls,
       target_server >>

\* One turn of the outer loop up to the send loop: connect to the robot
\* unless robot_connected, open the camera unless camera_connected, and go
\* on to the send loop when both are connected, else sleep and start over.
\* robot and camera say whether connect() and open() succeed.
ProcessConnect ==
    /\ image_processor.pc = "connect"
    /\ \E robot \in BOOLEAN, camera \in BOOLEAN :
          LET p == image_processor
              tries == ~p.robot_connected
              connected == IF tries THEN robot ELSE p.robot_connected
              opened == IF p.camera_connected THEN TRUE ELSE camera
          IN  /\ tries => p.connects < MaxConnects
              /\ image_processor' =
                   [p EXCEPT
                      !.sock = IF ~tries THEN @
                               ELSE IF robot THEN "socket" ELSE "None",
                      !.robot_connected = connected,
                      !.camera_connected = opened,
                      !.connects = IF tries THEN @ + 1 ELSE @,
                      !.pc = IF connected /\ opened THEN "send" ELSE "connect"]
    /\ handler' = "connect"
    /\ UNCHANGED OutsideImageProcessor

\* One turn of the send loop: get_targets and a send for the targets found.
\* targets says what get_targets yields (nothing, a target, an exception),
\* delivered whether send() succeeds on a socket.  An exception is handled
\* by closing self._sock, setting it to None and leaving the send loop;
\* self._sock.close() on None raises AttributeError inside the handler,
\* which ends process().
ProcessSend ==
    /\ image_processor.pc = "send"
    /\ \E targets \in {"none", "some", "error"}, delivered \in BOOLEAN :
          LET p == image_processor
              failed == \/ targets = "error"
                        \/ targets = "some" /\ (p.sock = "None" \/ ~delivered)
          IN  IF ~failed
              THEN /\ targets = "some" => p.sent < MaxSent
                   /\ image_processor' =
                        [p EXCEPT !.sent = IF targets = "some" THEN @ + 1 ELSE @]
              ELSE IF p.sock = "None"
              THEN image_processor' = [p EXCEPT !.pc = "terminated",
                                                !.raised = "AttributeError"]
              ELSE /\ p.failures < MaxFailures
                   /\ image_processor' = [p EXCEPT !.sock = "None",
                                                   !.failures = @ + 1,
                                                   !.pc = "connect"]
    /\ handler' = "send"
    /\ UNCHANGED OutsideImageProcessor

ProcessInit == ComponentInit(NewDriveTrain(TRUE, TRUE, TRUE, TRUE), NewShooter)

ProcessNext ==
    \/ ProcessConnect
    \/ ProcessSend

ProcessSpec == ProcessInit /\ [][ProcessNext]_vars

(* ------------------------------- C39 ---------------------------------- *)
\* C39: after any failure while sending targets the client leaves the send
\* loop and tries to reconnect: a new connection attempt to the robot
\* follows every disconnection, and the process keeps running (it does not
\* terminate with an unhandled exception).  As a property of states:
\* process() has not ended, the connection attempts outnumber the
\* disconnections whenever the send loop runs, and the send loop runs with
\* a socket.
C39_ReconnectsAfterFailure ==
    /\ image_processor.raised = "None"
    /\ image_processor.pc = "send" =>
          /\ image_processor.sock # "None"
          /\ image_processor.connects > image_processor.failures

\* What the code keeps: until the first failure the send loop runs with a
\* connected socket, and a failure does leave the send loop with the socket
\* closed and forgotten.
C39_UntilFirstFailure ==
    /\ (image_processor.failures = 0 /\ image_processor.pc = "send")
          => image_processor.sock = "socket"
    /\ (handler = "send" /\ image_processor.pc = "connect")
          => image_processor.sock = "None" /\ image_processor.robot_connected

====
